---------------------------- MODULE Spec2Model ----------------------------
(***************************************************************************)
(* Pattern-analysis engine of the glucose companion backend                *)
(* (backend/app/core/pattern_analyzer.py) together with the part of        *)
(* _extract_enhanced_patient_context (backend/app/core/chat_graph.py) that *)
(* builds the snapshot and calls the engine.                               *)
(*                                                                         *)
(* Units.  Time is counted in minutes (UTC minutes since an arbitrary      *)
(* midnight).  Glucose readings are whole mg/dL; a mean of readings is     *)
(* kept in hundredths of a mg/dL (two different means of at most ten       *)
(* readings differ by more than 0.01, so the order of means is exact).     *)
(* Scores in [0,1] are kept in thousandths.  Weights are grams.            *)
(***************************************************************************)
EXTENDS Integers, Sequences, FiniteSets, TLC

VARIABLES
    ctx,      \* the EnhancedPatientContext snapshot handed to analyze_patterns
    wall,     \* the wall clock read by get_singapore_now(), UTC minutes
    fault,    \* analyzer in which an unexpected exception is raised, or "none"
    runs,     \* outcomes of the analyze_patterns calls made on ctx so far
    rows      \* the table rows the next fetch returns, and whether it was made

vars == <<ctx, wall, fault, runs, rows>>

----------------------------------------------------------------------------
(* Arithmetic helpers *)

Max(a, b) == IF a >= b THEN a ELSE b
Min(a, b) == IF a <= b THEN a ELSE b

RECURSIVE SumSeq(_)
SumSeq(s) == IF s = <<>> THEN 0 ELSE Head(s) + SumSeq(Tail(s))

RECURSIVE MaxSeq(_)
MaxSeq(s) == IF Len(s) = 1 THEN s[1] ELSE Max(Head(s), MaxSeq(Tail(s)))

RECURSIVE ISqrtIn(_, _, _)
ISqrtIn(n, lo, hi) ==
    IF lo >= hi THEN lo
    ELSE LET mid == (lo + hi + 1) \div 2
         IN  IF mid * mid <= n THEN ISqrtIn(n, mid, hi) ELSE ISqrtIn(n, lo, mid - 1)

\* floor of the square root (x ** 0.5 on the fixed-point value)
ISqrt(n) == ISqrtIn(n, 0, 46340)

\* sum(xs) / len(xs) of whole numbers, in hundredths
CentiMean(xs) == (100 * SumSeq(xs)) \div Len(xs)

\* sum(xs) / len(xs) of values that are already fixed-point
FixMean(xs) == SumSeq(xs) \div Len(xs)

RECURSIVE SqDevSum(_, _)
SqDevSum(xs, m) ==
    IF xs = <<>> THEN 0
    ELSE (Head(xs) - m) * (Head(xs) - m) + SqDevSum(Tail(xs), m)

\* (sum((x - mean) ** 2 for x in xs) / len(xs)) ** 0.5, in the unit of xs
StdDev(xs) == ISqrt(SqDevSum(xs, FixMean(xs)) \div Len(xs))

RECURSIVE SelectSeqIdx(_, _)
\* the elements of s at the (increasing) positions in the set idx
SelectSeqIdx(s, idx) ==
    IF s = <<>> THEN <<>>
    ELSE LET n == Len(s)
         IN  IF n \in idx
             THEN Append(SelectSeqIdx(SubSeq(s, 1, n - 1), idx), s[n])
             ELSE SelectSeqIdx(SubSeq(s, 1, n - 1), idx)

\* s[:k]
Take(s, k) == SubSeq(s, 1, Min(k, Len(s)))

\* s[-(k + 1):]
TakeLastOneMore(s, k) == SubSeq(s, Max(1, Len(s) - k), Len(s))

\* s[-k:]
TakeLast(s, k) == SubSeq(s, Max(1, Len(s) - k + 1), Len(s))

\* s[a:b] with 0-based a, b
Slice(s, a, b) == SubSeq(s, Min(a, Len(s)) + 1, Min(b, Len(s)))

SeqToSet(s) == {s[i] : i \in 1..Len(s)}

----------------------------------------------------------------------------
(* Timestamps.  A timestamp is the text stored in created_at: a civil time *)
(* `civil` (minutes) followed by nothing ("naive"), by "Z", or by the      *)
(* offset "+08:00" ("sgt"); form "bad" is a text fromisoformat rejects     *)
(* (the empty string row.get("created_at", "") gives among them).          *)

SgtOffset == 480

\* datetime.fromisoformat(ts.replace("Z", "+00:00")) succeeds
Parses(ts) == ts.form # "bad"

\* the instant, after `if dt.tzinfo is None: dt = dt.replace(tzinfo=tz.utc)`
Instant(ts) == IF ts.form = "sgt" THEN ts.civil - SgtOffset ELSE ts.civil

\* dt.astimezone(get_singapore_timezone()) read as a civil time
LocalMinutes(ts) == Instant(ts) + SgtOffset

LocalHour(ts) == (LocalMinutes(ts) \div 60) % 24
LocalMinuteOfDay(ts) == LocalMinutes(ts) % 1440
LocalDate(ts) == LocalMinutes(ts) \div 1440

Absent == [present |-> FALSE]

----------------------------------------------------------------------------
(* Stable sorts of sequences of records that carry their key in field k.   *)

RECURSIVE InsertDesc(_, _)
\* position after every element whose key is >= the new key
InsertDesc(sorted, e) ==
    IF sorted = <<>> THEN <<e>>
    ELSE IF Head(sorted).k >= e.k
         THEN <<Head(sorted)>> \o InsertDesc(Tail(sorted), e)
         ELSE <<e>> \o sorted

\* the items left in the order they came in: the sort dropped
SortDescDropped(s) == s

RECURSIVE SortDesc(_)
\* sorted(items, key=..., reverse=True): stable
SortDesc(s) ==
    IF s = <<>> THEN <<>>
    ELSE InsertDesc(SortDesc(SubSeq(s, 1, Len(s) - 1)), s[Len(s)])

RECURSIVE InsertAsc(_, _)
InsertAsc(sorted, e) ==
    IF sorted = <<>> THEN <<e>>
    ELSE IF Head(sorted).k <= e.k
         THEN <<Head(sorted)>> \o InsertAsc(Tail(sorted), e)
         ELSE <<e>> \o sorted

RECURSIVE SortAsc(_)
\* sorted(items, key=...) and list.sort(key=...): stable
SortAsc(s) ==
    IF s = <<>> THEN <<>>
    ELSE InsertAsc(SortAsc(SubSeq(s, 1, Len(s) - 1)), s[Len(s)])

----------------------------------------------------------------------------
(* 1. Circadian glucose patterns *)

RECURSIVE HourlyReadings(_)
\* hourly_readings: one entry [hour, readings] per local hour, in the order
\* the hours are first met in the list; unparsable timestamps are skipped
HourlyReadings(gs) ==
    IF gs = <<>> THEN <<>>
    ELSE LET before == HourlyReadings(SubSeq(gs, 1, Len(gs) - 1))
             g == gs[Len(gs)]
         IN  IF ~Parses(g.ts) THEN before
             ELSE LET h == LocalHour(g.ts)
                  IN  IF \E i \in 1..Len(before) : before[i].hour = h
                      THEN [i \in 1..Len(before) |->
                               IF before[i].hour = h
                               THEN [before[i] EXCEPT !.readings = Append(@, g.reading)]
                               ELSE before[i]]
                      ELSE Append(before, [hour |-> h, readings |-> <<g.reading>>])

\* hourly_avg.items(): [v |-> hour, k |-> mean of the bucket]
HourlyAvg(gs) ==
    LET hr == HourlyReadings(gs)
    IN  [i \in 1..Len(hr) |-> [v |-> hr[i].hour, k |-> CentiMean(hr[i].readings)]]

\* all_avgs
BucketMeans(gs) == LET ha == HourlyAvg(gs) IN [i \in 1..Len(ha) |-> ha[i].k]

StabilityDivisor == 50

\* the stability without the clamp max(0, ...)
StabilityUnclamped(avgs) ==
    IF Len(avgs) > 1
    THEN 1000 - (StdDev(avgs) * 10) \div StabilityDivisor
    ELSE 500

\* stability of a non-empty list of bucket means, in thousandths
Stability(avgs) ==
    IF Len(avgs) > 1
    THEN Max(0, 1000 - (StdDev(avgs) * 10) \div StabilityDivisor)
    ELSE 500

AnalyzeCircadian(c) ==
    IF c.glucose = <<>> THEN Absent
    ELSE LET ha == HourlyAvg(c.glucose)
         IN  IF ha = <<>> THEN Absent
             ELSE LET sorted_hours == SortDesc(ha)
                      top == Take(sorted_hours, 3)
                      bottom == TakeLast(sorted_hours, 3)
                  IN  [present |-> TRUE,
                       peak_hours |-> [i \in 1..Len(top) |-> top[i].v],
                       low_hours |-> [i \in 1..Len(bottom) |-> bottom[i].v],
                       peak_avg_glucose |-> top[1].k,
                       low_avg_glucose |-> bottom[1].k,
                       pattern_stability |-> Stability(BucketMeans(c.glucose))]

----------------------------------------------------------------------------
(* Time-indexed glucose readings shared by the meal and activity analyzers *)

RECURSIVE GlucoseByTime(_)
\* glucose_by_time: a dict keyed by the local datetime, kept here as the
\* sequence of its items [k |-> instant, v |-> reading] in insertion order;
\* a later reading at an instant already present overwrites the value
GlucoseByTime(gs) ==
    IF gs = <<>> THEN <<>>
    ELSE LET before == GlucoseByTime(SubSeq(gs, 1, Len(gs) - 1))
             g == gs[Len(gs)]
         IN  IF ~Parses(g.ts) THEN before
             ELSE LET t == Instant(g.ts)
                  IN  IF \E i \in 1..Len(before) : before[i].k = t
                      THEN [i \in 1..Len(before) |->
                               IF before[i].k = t
                               THEN [before[i] EXCEPT !.v = g.reading]
                               ELSE before[i]]
                      ELSE Append(before, [k |-> t, v |-> g.reading])

\* the values of the items of gbt whose instant is in the set of instants ok
ValuesWhere(gbt, ok) ==
    LET kept == SelectSeqIdx(gbt, {i \in 1..Len(gbt) : gbt[i].k \in ok})
    IN  [i \in 1..Len(kept) |-> kept[i].v]

Instants(gbt) == {gbt[i].k : i \in 1..Len(gbt)}

----------------------------------------------------------------------------
(* 2. Meal-glucose correlations *)

MealWindow == 180
HighSpikeThreshold == 40

RECURSIVE ScanBaselineMutant(_, _, _)
\* the scan without `if dt <= meal_dt_sg ... else: break`: the latest reading
\* of the snapshot is the baseline, whichever side of the meal it is on
ScanBaselineMutant(sorted, t, acc) ==
    IF sorted = <<>> THEN acc
    ELSE ScanBaselineMutant(Tail(sorted), t,
                            [found |-> TRUE, at |-> Head(sorted).k, value |-> Head(sorted).v])

RECURSIVE ScanBaseline(_, _, _)
\* for dt, glucose in sorted(glucose_by_time.items()):
\*     if dt <= meal_dt_sg: baseline = glucose  else: break
ScanBaseline(sorted, t, acc) ==
    IF sorted = <<>> THEN acc
    ELSE IF Head(sorted).k <= t
         THEN ScanBaseline(Tail(sorted), t,
                           [found |-> TRUE, at |-> Head(sorted).k, value |-> Head(sorted).v])
         ELSE acc

NoBaseline == [found |-> FALSE, at |-> 0, value |-> 0]

\* the baseline of a meal at instant t: [found, at, value]
MealBaseline(gbt, t) == ScanBaseline(SortAsc(gbt), t, NoBaseline)

\* post_meal_readings
PostMealReadings(gbt, t) ==
    ValuesWhere(gbt, {d \in Instants(gbt) : t < d /\ d <= t + MealWindow})

\* what one meal log adds to meal_correlations: <<>> or <<max_spike>>
MealSpike(gbt, meal) ==
    IF ~Parses(meal.ts) THEN <<>>
    ELSE LET t == Instant(meal.ts)
             b == MealBaseline(gbt, t)
             post == PostMealReadings(gbt, t)
         IN  IF ~b.found THEN <<>>
             ELSE IF post = <<>> THEN <<>>
             ELSE <<MaxSeq(post) - b.value>>

RECURSIVE MealCorrelationsDict(_, _)
\* meal_correlations: items [name, spikes] in insertion order
MealCorrelationsDict(gbt, meals) ==
    IF meals = <<>> THEN <<>>
    ELSE LET before == MealCorrelationsDict(gbt, SubSeq(meals, 1, Len(meals) - 1))
             m == meals[Len(meals)]
             sp == MealSpike(gbt, m)
         IN  IF sp = <<>> THEN before
             ELSE IF \E i \in 1..Len(before) : before[i].name = m.meal
                  THEN [i \in 1..Len(before) |->
                           IF before[i].name = m.meal
                           THEN [before[i] EXCEPT !.spikes = @ \o sp]
                           ELSE before[i]]
                  ELSE Append(before, [name |-> m.meal, spikes |-> sp])

EmptyMealMatrix ==
    [best_meals |-> <<>>, worst_meals |-> <<>>, correlations |-> <<>>,
     avg_spike_all_meals |-> Absent]

\* [c for c in correlations[:5] if not c.is_high_spike]
BestMeals(correlations) ==
    LET first5 == Take(correlations, 5)
    IN  SelectSeqIdx(first5, {i \in 1..Len(first5) : ~first5[i].is_high_spike})

\* correlations[-5:] without `if c.is_high_spike`
WorstMealsUnfiltered(correlations) == TakeLast(correlations, 5)

\* [c for c in correlations[-5:] if c.is_high_spike]
WorstMeals(correlations) ==
    LET last5 == TakeLast(correlations, 5)
    IN  SelectSeqIdx(last5, {i \in 1..Len(last5) : last5[i].is_high_spike})

AnalyzeMealGlucose(c) ==
    IF c.meals = <<>> \/ c.glucose = <<>> THEN EmptyMealMatrix
    ELSE LET d == MealCorrelationsDict(GlucoseByTime(c.glucose), c.meals)
             unsorted == [i \in 1..Len(d) |->
                 LET avg == CentiMean(d[i].spikes)
                 IN  [meal_name |-> d[i].name,
                      k |-> avg,                       \* avg_glucose_spike
                      occurrences |-> Len(d[i].spikes),
                      is_high_spike |-> avg > 100 * HighSpikeThreshold]]
             correlations == SortAsc(unsorted)
             best == BestMeals(correlations)
             worst == WorstMeals(correlations)
         IN  [best_meals |-> [i \in 1..Len(best) |-> best[i].meal_name],
              worst_meals |-> [i \in 1..Len(worst) |-> worst[i].meal_name],
              correlations |-> correlations,
              avg_spike_all_meals |->
                  IF correlations = <<>> THEN Absent
                  ELSE [present |-> TRUE,
                        value |-> FixMean([i \in 1..Len(correlations) |-> correlations[i].k])]]

----------------------------------------------------------------------------
(* Counter(...).most_common *)

RECURSIVE CountItems(_)
\* Counter(xs).items(): [v |-> item, k |-> count] in order of first occurrence
CountItems(xs) ==
    IF xs = <<>> THEN <<>>
    ELSE LET before == CountItems(SubSeq(xs, 1, Len(xs) - 1))
             x == xs[Len(xs)]
         IN  IF \E i \in 1..Len(before) : before[i].v = x
             THEN [i \in 1..Len(before) |->
                      IF before[i].v = x THEN [before[i] EXCEPT !.k = @ + 1] ELSE before[i]]
             ELSE Append(before, [v |-> x, k |-> 1])

\* [h for h, _ in Counter(xs).most_common(n)]
MostCommon(xs, n) ==
    LET top == Take(SortDesc(CountItems(xs)), n)
    IN  [i \in 1..Len(top) |-> top[i].v]

\* the local hours of the logs whose timestamp parses, in list order
ParsedHours(logs) ==
    LET ok == SelectSeqIdx(logs, {i \in 1..Len(logs) : Parses(logs[i].ts)})
    IN  [i \in 1..Len(ok) |-> LocalHour(ok[i].ts)]

\* Counter(hours).most_common(1)[0][0], or None
OptimalHour(hours) ==
    IF hours = <<>> THEN Absent
    ELSE [present |-> TRUE, value |-> MostCommon(hours, 1)[1]]

----------------------------------------------------------------------------
(* 3. Medication timing effectiveness *)

\* str.lower() on the medication names of the model
Lower(name) ==
    CASE name = "Metformin" -> "metformin"
      [] name = "Insulin" -> "insulin"
      [] name = "Insulin Glargine" -> "insulin glargine"
      [] OTHER -> name

\* "insulin" in name.lower()
MentionsInsulin(name) == Lower(name) \in {"insulin", "insulin glargine"}

\* `if expected_doses > 0` with the guard dropped
ExpectedDosesUnguarded(days) == TRUE

\* `if expected_doses > 0`
ExpectedDosesPositive(days) == days > 0

\* (actual_doses / expected_doses) * 100 if expected_doses > 0 else 0,
\* in hundredths of a percent
AdherenceRate(actual, days) ==
    IF ExpectedDosesPositive(days) THEN (actual * 10000) \div days ELSE 0

\* adherence_rate / 100 without min(1.0, ...)
EffectivenessScoreUncapped(adherence) == adherence \div 10

\* min(1.0, adherence_rate / 100), in thousandths
EffectivenessScore(adherence) == Min(1000, adherence \div 10)

MedicationTimingFor(c, med_name) ==
    LET ml == SelectSeqIdx(c.meds, {i \in 1..Len(c.meds) :
                  Lower(c.meds[i].medication_name) = Lower(med_name)})
        adherence == AdherenceRate(Len(ml), c.days_of_history)
    IN  IF ml = <<>> THEN <<>>
        ELSE <<[medication_name |-> med_name,
                optimal_timing_hour |-> OptimalHour(ParsedHours(ml)),
                missed_dose_impact |-> Absent,
                adherence_rate |-> adherence,
                effectiveness_score |-> EffectivenessScore(adherence)]>>

RECURSIVE MedicationTimingOver(_, _)
MedicationTimingOver(c, names) ==
    IF names = <<>> THEN <<>>
    ELSE MedicationTimingFor(c, Head(names)) \o MedicationTimingOver(c, Tail(names))

AnalyzeMedicationTiming(c) ==
    IF c.meds = <<>> \/ c.patient_medications = <<>> THEN <<>>
    ELSE MedicationTimingOver(c, c.patient_medications)

----------------------------------------------------------------------------
(* Order of timestamp texts, as sorted(..., key=lambda r: r.timestamp)     *)
(* compares them: the empty text first, then by the civil time written,    *)
(* then by the suffix ("" < "+08:00" < "Z").                               *)

FormRank(form) == CASE form = "naive" -> 0 [] form = "sgt" -> 1 [] OTHER -> 2

TextKey(ts) == IF ts.form = "bad" THEN 0 - 1 ELSE 3 * ts.civil + FormRank(ts.form)

\* sorted(logs, key=lambda r: r.timestamp)
SortByText(logs) ==
    LET keyed == SortAsc([i \in 1..Len(logs) |-> [k |-> TextKey(logs[i].ts), v |-> logs[i]]])
    IN  [i \in 1..Len(keyed) |-> keyed[i].v]

----------------------------------------------------------------------------
(* 4. Glucose spike patterns *)

SpikeMinGap == 30
SpikeMaxGap == 240
SpikeThreshold == 20

\* the spike found between two neighbours of sorted_readings: <<>> or
\* <<[spike, hour]>>
SpikeBetween(prev, curr) ==
    IF ~Parses(prev.ts) \/ ~Parses(curr.ts) THEN <<>>
    ELSE LET time_diff == Instant(curr.ts) - Instant(prev.ts)
             spike == curr.reading - prev.reading
         IN  IF SpikeMinGap <= time_diff /\ time_diff <= SpikeMaxGap /\ spike > SpikeThreshold
             THEN <<[spike |-> spike, hour |-> LocalHour(curr.ts)]>>
             ELSE <<>>

RECURSIVE SpikesFrom(_, _)
\* for i in range(1, len(sorted_readings))
SpikesFrom(sorted, i) ==
    IF i > Len(sorted) THEN <<>>
    ELSE SpikeBetween(sorted[i - 1], sorted[i]) \o SpikesFrom(sorted, i + 1)

\* `if context.days_of_history > 0` of spike_freq
SpikeDaysPositive(days) == days > 0

\* len(spikes) / days_of_history if days_of_history > 0 else 0, in thousandths
SpikeFrequency(n, days) == IF SpikeDaysPositive(days) THEN (n * 1000) \div days ELSE 0

AnalyzeGlucoseSpikes(c) ==
    IF Len(c.glucose) < 2 THEN Absent
    ELSE LET found == SpikesFrom(SortByText(c.glucose), 2)
         IN  IF found = <<>> THEN Absent
             ELSE [present |-> TRUE,
                   avg_spike_magnitude |-> CentiMean([i \in 1..Len(found) |-> found[i].spike]),
                   spike_frequency |-> SpikeFrequency(Len(found), c.days_of_history),
                   common_spike_times |->
                       MostCommon([i \in 1..Len(found) |-> found[i].hour], 3)]

----------------------------------------------------------------------------
(* 5. Activity-glucose correlations *)

ActivityBeforeWindow == 60
ActivityAfterStart == 60
ActivityAfterEnd == 180

\* before_glucose of one activity at instant t
BeforeGlucose(gbt, t) ==
    ValuesWhere(gbt, {d \in Instants(gbt) : t - ActivityBeforeWindow <= d /\ d < t})

\* after_glucose of one activity at instant t
AfterGlucose(gbt, t) ==
    ValuesWhere(gbt, {d \in Instants(gbt) :
                         t + ActivityAfterStart <= d /\ d <= t + ActivityAfterEnd})

RECURSIVE BeforeReadings(_, _)
\* before_readings: before_glucose[-1] of every activity that has one
BeforeReadings(gbt, logs) ==
    IF logs = <<>> THEN <<>>
    ELSE LET a == Head(logs)
             bg == IF Parses(a.ts) THEN BeforeGlucose(gbt, Instant(a.ts)) ELSE <<>>
         IN  (IF bg = <<>> THEN <<>> ELSE <<bg[Len(bg)]>>) \o BeforeReadings(gbt, Tail(logs))

RECURSIVE AfterReadings(_, _)
\* after_readings: after_glucose[0] of every activity that has one
AfterReadings(gbt, logs) ==
    IF logs = <<>> THEN <<>>
    ELSE LET a == Head(logs)
             ag == IF Parses(a.ts) THEN AfterGlucose(gbt, Instant(a.ts)) ELSE <<>>
         IN  (IF ag = <<>> THEN <<>> ELSE <<ag[1]>>) \o AfterReadings(gbt, Tail(logs))

ActivityCorrelationFor(c, gbt, activity_type) ==
    LET logs == SelectSeqIdx(c.acts, {i \in 1..Len(c.acts) :
                    c.acts[i].activity_type = activity_type})
        before_readings == BeforeReadings(gbt, logs)
        after_readings == AfterReadings(gbt, logs)
    IN  IF before_readings # <<>> /\ after_readings # <<>>
        THEN {[activity_type |-> activity_type,
               avg_glucose_before |-> CentiMean(before_readings),
               avg_glucose_after |-> CentiMean(after_readings),
               glucose_change |-> CentiMean(after_readings) - CentiMean(before_readings),
               optimal_timing_hour |-> OptimalHour(ParsedHours(logs))]}
        ELSE {}

\* The list is built by iterating a Python set of type names, so its order
\* is not fixed by the snapshot; it is kept as the set of its entries.
AnalyzeActivityGlucose(c) ==
    IF c.acts = <<>> \/ c.glucose = <<>> THEN {}
    ELSE LET gbt == GlucoseByTime(c.glucose)
         IN  UNION {ActivityCorrelationFor(c, gbt, ty) :
                        ty \in {c.acts[i].activity_type : i \in 1..Len(c.acts)}}

----------------------------------------------------------------------------
(* 6. Weight-glucose correlation *)

LbsToKgMicro == 453592

\* the weight in grams: weight * 0.453592 kg when unit.lower() == "lbs"
WeightGrams(wl) ==
    IF wl.unit \in {"lbs", "LBS", "Lbs"} THEN (wl.weight * LbsToKgMicro) \div 1000
    ELSE wl.weight * 1000

AnalyzeWeightGlucose(c) ==
    IF Len(c.weights) < 2 THEN Absent
    ELSE IF Len(c.glucose) < 2 THEN Absent
    ELSE LET weights_kg == SortByText(c.weights)
             weight_change == WeightGrams(weights_kg[Len(weights_kg)]) - WeightGrams(weights_kg[1])
             sorted_glucose == SortByText(c.glucose)
             half == Len(sorted_glucose) \div 2
             early == SubSeq(sorted_glucose, 1, half)
             late == SubSeq(sorted_glucose, half + 1, Len(sorted_glucose))
             early_avg == CentiMean([i \in 1..Len(early) |-> early[i].reading])
             late_avg == CentiMean([i \in 1..Len(late) |-> late[i].reading])
         IN  [present |-> TRUE,
              weight_change_kg |-> weight_change,
              glucose_change_mg_dl |-> late_avg - early_avg,
              correlation_strength |-> IF weight_change < 0 THEN 0 - 300 ELSE 200,
              days_to_see_effect |-> c.days_of_history]

----------------------------------------------------------------------------
(* 7. Hypoglycemia risk factors *)

LowReadingBelow == 80
TrendDelta == 10
MealGapMinutes == 360
ActivityRecentMinutes == 240
WeightRecentLow == 300
WeightTrend == 200
WeightMealGap == 200
WeightActivity == 150
WeightInsulin == 150

Readings(gs) == [i \in 1..Len(gs) |-> gs[i].reading]

\* len(recent_lows)
RecentLows(c) ==
    Cardinality({i \in 1..Min(5, Len(c.glucose)) : c.glucose[i].reading < LowReadingBelow})

\* glucose trend: the means of readings [:3] and [3:6], each a sum over 3
GlucoseTrend(c) ==
    IF Len(c.glucose) >= 3
    THEN LET recent_avg == (100 * SumSeq(Readings(Slice(c.glucose, 0, 3)))) \div 3
             earlier_avg == IF Len(c.glucose) >= 6
                            THEN (100 * SumSeq(Readings(Slice(c.glucose, 3, 6)))) \div 3
                            ELSE recent_avg
         IN  IF recent_avg < earlier_avg - 100 * TrendDelta THEN "decreasing"
             ELSE IF recent_avg > earlier_avg + 100 * TrendDelta THEN "increasing"
             ELSE "stable"
    ELSE "stable"

\* hours_since_meal in minutes, read from the wall clock `now`; None when
\* there is no meal log or recent_meal_logs[0] does not parse
HoursSinceMeal(c, now) ==
    IF c.meals # <<>> /\ Parses(c.meals[1].ts)
    THEN [present |-> TRUE, minutes |-> now - Instant(c.meals[1].ts)]
    ELSE Absent

LongSinceMeal(c, now) ==
    LET h == HoursSinceMeal(c, now) IN h.present /\ h.minutes > MealGapMinutes

\* recent_activity, read from the wall clock `now`
RecentActivity(c, now) ==
    /\ c.acts # <<>>
    /\ Parses(c.acts[1].ts)
    /\ now - Instant(c.acts[1].ts) < ActivityRecentMinutes

InsulinLogs(c) ==
    SelectSeqIdx(c.meds, {i \in 1..Len(c.meds) : MentionsInsulin(c.meds[i].medication_name)})

\* medication_timing_risk
MedicationTimingRisk(c) ==
    /\ c.meds # <<>>
    /\ c.patient_medications # <<>>
    /\ InsulinLogs(c) # <<>>
    /\ Parses(InsulinLogs(c)[1].ts)
    /\ c.meals # <<>>
    /\ Parses(c.meals[1].ts)
    /\ Instant(InsulinLogs(c)[1].ts) > Instant(c.meals[1].ts)

\* the score with 0.3 added for every low reading and no final min(1.0, ...)
RiskScoreUncapped(lows, decreasing, meal, activity, insulin) ==
    lows * WeightRecentLow
    + (IF decreasing THEN WeightTrend ELSE 0)
    + (IF meal THEN WeightMealGap ELSE 0)
    + (IF activity THEN WeightActivity ELSE 0)
    + (IF insulin THEN WeightInsulin ELSE 0)

\* risk_score after the five `risk_score += w` and min(1.0, risk_score)
RiskScore(lows, decreasing, meal, activity, insulin) ==
    Min(1000,
        (IF lows > 0 THEN WeightRecentLow ELSE 0)
        + (IF decreasing THEN WeightTrend ELSE 0)
        + (IF meal THEN WeightMealGap ELSE 0)
        + (IF activity THEN WeightActivity ELSE 0)
        + (IF insulin THEN WeightInsulin ELSE 0))

\* the factors with the `factors.append` of the activity rule left out
ContributingFactorsNoActivity(low, decreasing, meal, activity, insulin) ==
    (IF low THEN <<"Recent low glucose readings">> ELSE <<>>)
    \o (IF decreasing THEN <<"Decreasing glucose trend">> ELSE <<>>)
    \o (IF meal THEN <<"Long time since last meal">> ELSE <<>>)
    \o (IF insulin THEN <<"Insulin taken without recent meal">> ELSE <<>>)

\* factors after the five `factors.append(...)`
ContributingFactors(low, decreasing, meal, activity, insulin) ==
    (IF low THEN <<"Recent low glucose readings">> ELSE <<>>)
    \o (IF decreasing THEN <<"Decreasing glucose trend">> ELSE <<>>)
    \o (IF meal THEN <<"Long time since last meal">> ELSE <<>>)
    \o (IF activity THEN <<"Recent physical activity">> ELSE <<>>)
    \o (IF insulin THEN <<"Insulin taken without recent meal">> ELSE <<>>)

\* the body of _analyze_hypoglycemia_risk after its guard on the readings
HypoglycemiaRiskOf(c, now) ==
         LET lows == RecentLows(c)
             low == lows > 0
             trend == GlucoseTrend(c)
             meal == LongSinceMeal(c, now)
             activity == RecentActivity(c, now)
             insulin == MedicationTimingRisk(c)
         IN  [present |-> TRUE,
              risk_score |-> RiskScore(lows, trend = "decreasing", meal, activity, insulin),
              contributing_factors |->
                  ContributingFactors(low, trend = "decreasing", meal, activity, insulin),
              last_meal_hours_ago |-> HoursSinceMeal(c, now),
              recent_activity |-> activity,
              medication_timing_risk |-> insulin,
              glucose_trend |-> trend]

\* the scorer without `if not context.recent_glucose_readings: return None`
AnalyzeHypoglycemiaRiskUnguarded(c, now) == HypoglycemiaRiskOf(c, now)

AnalyzeHypoglycemiaRisk(c, now) ==
    IF c.glucose = <<>> THEN Absent ELSE HypoglycemiaRiskOf(c, now)

----------------------------------------------------------------------------
(* 8. Lifestyle consistency *)

TimingDivisor == 120
TimingThreshold == 600
ActivityThreshold == 500
DefaultConsistency == 500

\* the minutes since local midnight of the logs whose timestamp parses
TimesOfDay(logs) ==
    LET ok == SelectSeqIdx(logs, {i \in 1..Len(logs) : Parses(logs[i].ts)})
    IN  [i \in 1..Len(ok) |-> LocalMinuteOfDay(ok[i].ts)]

\* max(0, 1 - std_dev / 120) of at least two times of day (the standard
\* deviation is taken on tenths of a minute), else the default 0.5
TimingConsistency(logs) ==
    LET times == TimesOfDay(logs)
    IN  IF Len(times) >= 2
        THEN Max(0, 1000 - (StdDev([i \in 1..Len(times) |-> 10 * times[i]]) * 100)
                               \div TimingDivisor)
        ELSE DefaultConsistency

\* activity_days
ActivityDays(logs) ==
    {LocalDate(logs[i].ts) : i \in {j \in 1..Len(logs) : Parses(logs[j].ts)}}

\* `if context.days_of_history > 0` of activity_consistency
ActivityDaysPositive(days) == days > 0

\* len(activity_days) / days_of_history if days_of_history > 0 else 0
ActivityConsistency(c) ==
    IF c.acts = <<>> THEN DefaultConsistency
    ELSE IF ActivityDaysPositive(c.days_of_history)
         THEN (Cardinality(ActivityDays(c.acts)) * 1000) \div c.days_of_history
         ELSE 0

AnalyzeLifestyleConsistency(c) ==
    IF c.meals = <<>> /\ c.meds = <<>> /\ c.acts = <<>> THEN Absent
    ELSE LET meal_consistency == TimingConsistency(c.meals)
             medication_consistency == TimingConsistency(c.meds)
             activity_consistency == ActivityConsistency(c)
         IN  [present |-> TRUE,
              overall_score |->
                  (meal_consistency + medication_consistency + activity_consistency) \div 3,
              meal_timing_consistency |-> meal_consistency,
              medication_timing_consistency |-> medication_consistency,
              activity_consistency |-> activity_consistency,
              areas_needing_improvement |->
                  (IF c.meals = <<>> THEN <<"Regular meal logging">>
                   ELSE IF Len(TimesOfDay(c.meals)) >= 2 /\ meal_consistency < TimingThreshold
                        THEN <<"Meal timing consistency">> ELSE <<>>)
                  \o (IF c.meds = <<>> THEN <<"Regular medication logging">>
                      ELSE IF Len(TimesOfDay(c.meds)) >= 2
                              /\ medication_consistency < TimingThreshold
                           THEN <<"Medication timing consistency">> ELSE <<>>)
                  \o (IF c.acts = <<>> THEN <<"Activity logging">>
                      ELSE IF activity_consistency < ActivityThreshold
                           THEN <<"Regular physical activity">> ELSE <<>>)]

----------------------------------------------------------------------------
(* 9. Personalized targets *)

GoodControlBelow == 140

\* f"{hour}:00": the hour written without padding
HourText(h) == [hour |-> h, padded |-> FALSE]

\* a literal such as "08:00"
PaddedText(h) == [hour |-> h, padded |-> TRUE]

\* [present, min, max]: absent when there is no glucose reading
GlucoseRange(c) ==
    IF c.glucose = <<>> THEN Absent
    ELSE IF "Type 2 Diabetes" \in SeqToSet(c.patient_conditions)
         THEN IF CentiMean(Readings(c.glucose)) < 100 * GoodControlBelow
              THEN [present |-> TRUE, min |-> 80, max |-> 140]
              ELSE [present |-> TRUE, min |-> 80, max |-> 180]
         ELSE [present |-> TRUE, min |-> 70, max |-> 140]

BestMealTimes(circadian) ==
    IF circadian.present /\ circadian.low_hours # <<>>
    THEN LET hs == Take(circadian.low_hours, 2) IN [i \in 1..Len(hs) |-> HourText(hs[i])]
    ELSE <<PaddedText(8), PaddedText(12), PaddedText(18)>>

\* best_activity_times with `(peak_hour - 2) % 24` replaced by `peak_hour - 2`
BestActivityTimesNoWrap(circadian) ==
    IF circadian.present /\ circadian.peak_hours # <<>>
    THEN LET hs == Take(circadian.peak_hours, 2)
         IN  [i \in 1..Len(hs) |-> HourText(hs[i] - 2)]
    ELSE <<PaddedText(6), PaddedText(18)>>

BestActivityTimes(circadian) ==
    IF circadian.present /\ circadian.peak_hours # <<>>
    THEN LET hs == Take(circadian.peak_hours, 2)
         IN  [i \in 1..Len(hs) |-> HourText((hs[i] - 2) % 24)]
    ELSE <<PaddedText(6), PaddedText(18)>>

\* medication_optimization: the dict as the set of its items; a later entry
\* of medication_effectiveness with the same name overwrites an earlier one
MedicationOptimization(eff) ==
    {[name |-> eff[i].medication_name, at |-> HourText(eff[i].optimal_timing_hour.value)] :
        i \in {j \in 1..Len(eff) :
                  /\ eff[j].optimal_timing_hour.present
                  /\ ~\E l \in (j + 1)..Len(eff) :
                         /\ eff[l].medication_name = eff[j].medication_name
                         /\ eff[l].optimal_timing_hour.present}}

GeneratePersonalizedTargets(c, circadian, medication_effectiveness) ==
    LET range == GlucoseRange(c)
    IN  IF ~range.present THEN Absent
        ELSE [present |-> TRUE,
              suggested_glucose_range_min |-> range.min,
              suggested_glucose_range_max |-> range.max,
              best_meal_times |-> BestMealTimes(circadian),
              best_activity_times |-> BestActivityTimes(circadian),
              medication_optimization |-> MedicationOptimization(medication_effectiveness)]

----------------------------------------------------------------------------
(* Orchestrator *)

Analyzers ==
    {"circadian", "meal", "medication", "spikes", "activity", "weight",
     "hypoglycemia", "lifestyle", "targets"}

\* PatternAnalysisResult built by analyze_patterns when no analyzer raises
AnalyzePatterns(c, now) ==
    LET circadian == AnalyzeCircadian(c)
        medication_effectiveness == AnalyzeMedicationTiming(c)
    IN  [circadian_pattern |-> circadian,
         meal_glucose_correlations |-> AnalyzeMealGlucose(c),
         medication_effectiveness |-> medication_effectiveness,
         spike_patterns |-> AnalyzeGlucoseSpikes(c),
         activity_correlations |-> AnalyzeActivityGlucose(c),
         weight_correlations |-> AnalyzeWeightGlucose(c),
         hypoglycemia_risk |-> AnalyzeHypoglycemiaRisk(c, now),
         lifestyle_consistency |-> AnalyzeLifestyleConsistency(c),
         personalized_targets |->
             GeneratePersonalizedTargets(c, circadian, medication_effectiveness)]


\* The analyzers in which a run on c raises ZeroDivisionError: a division by
\* days_of_history that is executed with days_of_history = 0.  (Every other
\* division of the engine has a divisor its own guard keeps non-zero.)
ZeroDivision(c) ==
    {a \in Analyzers :
        /\ c.days_of_history = 0
        /\ \/ /\ a = "medication"
              /\ c.meds # <<>> /\ c.patient_medications # <<>>
              /\ \E i \in 1..Len(c.meds), j \in 1..Len(c.patient_medications) :
                     Lower(c.meds[i].medication_name) = Lower(c.patient_medications[j])
              /\ ExpectedDosesPositive(c.days_of_history)
           \/ /\ a = "spikes"
              /\ Len(c.glucose) >= 2
              /\ SpikesFrom(SortByText(c.glucose), 2) # <<>>
              /\ SpikeDaysPositive(c.days_of_history)
           \/ /\ a = "lifestyle"
              /\ c.acts # <<>>
              /\ ActivityDaysPositive(c.days_of_history)}

\* What a call analyze_patterns(c) at wall-clock time `now` gives its caller:
\* analyze_patterns calls the nine analyzers one after the other with no
\* try/except of its own, so an exception raised in any of them leaves it.
Outcome(c, now, f) ==
    IF f # "none" \/ ZeroDivision(c) # {}
    THEN [raised |-> TRUE]
    ELSE [raised |-> FALSE, result |-> AnalyzePatterns(c, now)]

\* enhanced_context.pattern_analysis as _extract_enhanced_patient_context
\* leaves it after the call: None when the call raised
PatternAnalysis(outcome) ==
    IF outcome.raised THEN Absent ELSE [present |-> TRUE, value |-> outcome.result]

----------------------------------------------------------------------------
(* The snapshot and the steps that build and analyse it *)

Timestamp(civil, form) == [civil |-> civil, form |-> form]

\* the snapshot before any row is fetched
EmptyContext(days, medications, conditions, fetched_at) ==
    [glucose |-> <<>>, meals |-> <<>>, meds |-> <<>>, acts |-> <<>>, weights |-> <<>>,
     patient_medications |-> medications,
     patient_conditions |-> conditions,
     days_of_history |-> days,
     data_fetched_at |-> fetched_at]

\* no table has a row and no fetch was made
NoRows == [glucose |-> <<>>, activity |-> <<>>, weight |-> <<>>, read |-> FALSE]

\* Rows are fetched with order("created_at", desc=True): a row can be put in
\* front of the list when no row already there is later than it.
NewestFirst(list, e) ==
    Parses(e.ts) =>
        \A i \in 1..Len(list) : Parses(list[i].ts) => Instant(list[i].ts) <= Instant(e.ts)

\* as NewestFirst, with created_at values that are all different
StrictlyNewest(list, e) ==
    /\ Parses(e.ts)
    /\ \A i \in 1..Len(list) : Parses(list[i].ts) /\ Instant(list[i].ts) < Instant(e.ts)

AddGlucose(e) ==
    /\ runs = <<>>
    /\ NewestFirst(ctx.glucose, e)
    /\ ctx' = [ctx EXCEPT !.glucose = <<e>> \o @]
    /\ UNCHANGED <<wall, fault, runs, rows>>

AddMeal(e) ==
    /\ runs = <<>>
    /\ NewestFirst(ctx.meals, e)
    /\ ctx' = [ctx EXCEPT !.meals = <<e>> \o @]
    /\ UNCHANGED <<wall, fault, runs, rows>>

AddMedication(e) ==
    /\ runs = <<>>
    /\ NewestFirst(ctx.meds, e)
    /\ ctx' = [ctx EXCEPT !.meds = <<e>> \o @]
    /\ UNCHANGED <<wall, fault, runs, rows>>

AddActivity(e) ==
    /\ runs = <<>>
    /\ NewestFirst(ctx.acts, e)
    /\ ctx' = [ctx EXCEPT !.acts = <<e>> \o @]
    /\ UNCHANGED <<wall, fault, runs, rows>>

AddWeight(e) ==
    /\ runs = <<>>
    /\ NewestFirst(ctx.weights, e)
    /\ ctx' = [ctx EXCEPT !.weights = <<e>> \o @]
    /\ UNCHANGED <<wall, fault, runs, rows>>

MaxRuns == 2

\* the snapshot as it would be left had the spike analyzer sorted the list of
\* the context in place (recent_glucose_readings.sort(key=...))
ContextAfterSortInPlace(c) == [c EXCEPT !.glucose = SortByText(@)]

\* the snapshot as analyze_patterns leaves it: the analyzers read the lists
\* through sorted(), comprehensions and loops, call .sort() on lists of their
\* own only, and assign no attribute of the context or of its records
ContextAfterAnalysis(c) == c

\* one call of analyze_patterns on the snapshot
Analyze ==
    /\ Len(runs) < MaxRuns
    /\ runs' = Append(runs, [at |-> wall, outcome |-> Outcome(ctx, wall, fault)])
    /\ ctx' = ContextAfterAnalysis(ctx)
    /\ UNCHANGED <<wall, fault, rows>>

----------------------------------------------------------------------------
(* Circadian analysis over readings spread over the hours of a day *)

MaxCircadianReadings == 6

FetchedAt == 2880

CircadianTimes == {60 * h : h \in {0, 5, 6, 12, 13, 18, 19}} \cup {725}
CircadianValues == {60, 95, 180}

CircadianAddGlucose ==
    \E t \in CircadianTimes, v \in CircadianValues :
        /\ Len(ctx.glucose) < MaxCircadianReadings
        /\ StrictlyNewest(ctx.glucose, [reading |-> v, ts |-> Timestamp(t, "Z")])
        /\ AddGlucose([reading |-> v, ts |-> Timestamp(t, "Z")])

CircadianRun == Len(runs) < 1 /\ Analyze

InitCircadian ==
    /\ ctx = EmptyContext(7, <<>>, <<>>, FetchedAt)
    /\ wall = FetchedAt
    /\ fault = "none"
    /\ runs = <<>>
    /\ rows = NoRows

NextCircadian == CircadianAddGlucose \/ CircadianRun

SpecCircadian == InitCircadian /\ [][NextCircadian]_vars


----------------------------------------------------------------------------
(* Meals joined with the glucose readings around them *)

MaxMealReadings == 3
MaxMealLogs == 2

MealGlucoseTimes == {30, 60, 240}
MealGlucoseValues == {100, 140, 160}
MealTimes == {20, 60}
MealLabels == {"Rice", "rice"}

MealAddGlucose ==
    \E t \in MealGlucoseTimes, v \in MealGlucoseValues :
        /\ Len(ctx.glucose) < MaxMealReadings
        /\ AddGlucose([reading |-> v, ts |-> Timestamp(t, "Z")])

MealAddMeal ==
    \E t \in MealTimes, l \in MealLabels :
        /\ Len(ctx.meals) < MaxMealLogs
        /\ AddMeal([meal |-> l, ts |-> Timestamp(t, "Z")])

MealRun == Len(runs) < 1 /\ Analyze

InitMeal ==
    /\ ctx = EmptyContext(7, <<>>, <<>>, FetchedAt)
    /\ wall = FetchedAt
    /\ fault = "none"
    /\ runs = <<>>
    /\ rows = NoRows

NextMeal == MealAddGlucose \/ MealAddMeal \/ MealRun

SpecMeal == InitMeal /\ [][NextMeal]_vars

----------------------------------------------------------------------------
(* Hypoglycemia scoring: readings, the last meal, the last activity and an *)
(* insulin log, analysed at the moment the snapshot was fetched            *)

MaxHypoReadings == 6
MaxHypoLogs == 1

HypoValues == {70, 100}
HypoMealTimes == {FetchedAt - 400, FetchedAt - 100}
HypoActivityTimes == {FetchedAt - 300, FetchedAt - 100}
HypoMedicationTimes == {FetchedAt - 450, FetchedAt - 50}
HypoMedications == {"Metformin", "Insulin"}

\* readings arrive one hour apart, the newest in front
HypoAddGlucose ==
    \E v \in HypoValues :
        /\ Len(ctx.glucose) < MaxHypoReadings
        /\ AddGlucose([reading |-> v, ts |-> Timestamp(60 * (Len(ctx.glucose) + 1), "Z")])

HypoAddMeal ==
    \E t \in HypoMealTimes :
        /\ Len(ctx.meals) < MaxHypoLogs
        /\ AddMeal([meal |-> "Rice", ts |-> Timestamp(t, "Z")])

HypoAddActivity ==
    \E t \in HypoActivityTimes :
        /\ Len(ctx.acts) < MaxHypoLogs
        /\ AddActivity([activity_type |-> "Walking", ts |-> Timestamp(t, "Z")])

HypoAddMedication ==
    \E t \in HypoMedicationTimes, m \in HypoMedications :
        /\ Len(ctx.meds) < MaxHypoLogs
        /\ AddMedication([medication_name |-> m, ts |-> Timestamp(t, "Z")])

HypoRun == Len(runs) < 1 /\ Analyze

InitHypo ==
    /\ \E medications \in {<<>>, <<"Insulin">>} :
           ctx = EmptyContext(7, medications, <<>>, FetchedAt)
    /\ wall = FetchedAt
    /\ fault = "none"
    /\ runs = <<>>
    /\ rows = NoRows

NextHypo == HypoAddGlucose \/ HypoAddMeal \/ HypoAddActivity \/ HypoAddMedication \/ HypoRun

SpecHypo == InitHypo /\ [][NextHypo]_vars

----------------------------------------------------------------------------
(* One snapshot analysed more than once while the wall clock moves on *)

MaxClockReadings == 2
MaxClockTicks == 2

ClockStep == 120
ClockMealTimes == {FetchedAt - 300, FetchedAt - 100}
ClockActivityTimes == {FetchedAt - 200}

ClockAddGlucose ==
    \E v \in HypoValues :
        /\ Len(ctx.glucose) < MaxClockReadings
        /\ AddGlucose([reading |-> v, ts |-> Timestamp(60 * (Len(ctx.glucose) + 1), "Z")])

ClockAddMeal ==
    \E t \in ClockMealTimes :
        /\ ctx.meals = <<>>
        /\ AddMeal([meal |-> "Rice", ts |-> Timestamp(t, "Z")])

ClockAddActivity ==
    \E t \in ClockActivityTimes :
        /\ ctx.acts = <<>>
        /\ AddActivity([activity_type |-> "Walking", ts |-> Timestamp(t, "Z")])

\* time passes: get_singapore_now() reads a later instant
Tick ==
    /\ wall < FetchedAt + MaxClockTicks * ClockStep
    /\ wall' = wall + ClockStep
    /\ UNCHANGED <<ctx, fault, runs, rows>>

InitClock ==
    /\ ctx = EmptyContext(7, <<>>, <<>>, FetchedAt)
    /\ wall = FetchedAt
    /\ fault = "none"
    /\ runs = <<>>
    /\ rows = NoRows

NextClock == ClockAddGlucose \/ ClockAddMeal \/ ClockAddActivity \/ Tick \/ Analyze

SpecClock == InitClock /\ [][NextClock]_vars

----------------------------------------------------------------------------
(* An analyzer that raises: `fault` names the analyzer inside which an      *)
(* exception is raised during the run (for one, OverflowError from          *)
(* `(x - mean_avg) ** 2` in the circadian analyzer when a reading is 1e200). *)

InitFault ==
    /\ ctx = EmptyContext(7, <<>>, <<>>, FetchedAt)
    /\ wall = FetchedAt
    /\ fault \in Analyzers \cup {"none"}
    /\ runs = <<>>
    /\ rows = NoRows

NextFault == ClockAddGlucose \/ ClockAddMeal \/ ClockAddActivity \/ Analyze

SpecFault == InitFault /\ [][NextFault]_vars

----------------------------------------------------------------------------
(* Lifestyle consistency over the rows of a fetch window of `days` days *)

MaxLifestyleActivities == 3
MaxLifestyleLogs == 2

LifestyleDays == {1, 2}
LifestyleActivityTimes == {FetchedAt - 2800, FetchedAt - 1500, FetchedAt - 600, FetchedAt - 60}
LifestyleLogTimes == {FetchedAt - 700, FetchedAt - 30}

\* since = now - timedelta(days=days, minutes=1); .gte("created_at", since)
InWindow(c, e) == Instant(e.ts) >= c.data_fetched_at - (1440 * c.days_of_history + 1)

LifestyleAddActivity ==
    \E t \in LifestyleActivityTimes :
        /\ Len(ctx.acts) < MaxLifestyleActivities
        /\ InWindow(ctx, [ts |-> Timestamp(t, "Z")])
        /\ AddActivity([activity_type |-> "Walking", ts |-> Timestamp(t, "Z")])

LifestyleAddMeal ==
    \E t \in LifestyleLogTimes :
        /\ Len(ctx.meals) < MaxLifestyleLogs
        /\ InWindow(ctx, [ts |-> Timestamp(t, "Z")])
        /\ AddMeal([meal |-> "Rice", ts |-> Timestamp(t, "Z")])

LifestyleAddMedication ==
    \E t \in LifestyleLogTimes :
        /\ Len(ctx.meds) < MaxLifestyleLogs
        /\ InWindow(ctx, [ts |-> Timestamp(t, "Z")])
        /\ AddMedication([medication_name |-> "Metformin", ts |-> Timestamp(t, "Z")])

LifestyleRun == Len(runs) < 1 /\ Analyze

InitLifestyle ==
    /\ \E days \in LifestyleDays : ctx = EmptyContext(days, <<"Metformin">>, <<>>, FetchedAt)
    /\ wall = FetchedAt
    /\ fault = "none"
    /\ runs = <<>>
    /\ rows = NoRows

NextLifestyle ==
    LifestyleAddActivity \/ LifestyleAddMeal \/ LifestyleAddMedication \/ LifestyleRun

SpecLifestyle == InitLifestyle /\ [][NextLifestyle]_vars

----------------------------------------------------------------------------
(* Snapshots handed to analyze_patterns directly: any of the five lists may *)
(* be empty, a row may carry a timestamp that does not parse, and           *)
(* days_of_history is whatever the caller wrote                             *)

MaxSnapshotReadings == 2
MaxSnapshotMedications == 2
MaxSnapshotWeights == 2

SnapshotDays == {0 - 1, 0, 7}
SnapshotForms == {"Z", "bad"}
SnapshotValues == {100, 160}
SnapshotWeightValues == {70, 72}

\* the created_at text of the k-th row of a list, rows one hour apart
SnapshotStamp(k, form) ==
    IF form = "bad" THEN Timestamp(0, "bad") ELSE Timestamp(FetchedAt - 600 + 60 * k, form)

SnapshotAddGlucose ==
    \E v \in SnapshotValues, f \in SnapshotForms :
        /\ Len(ctx.glucose) < MaxSnapshotReadings
        /\ AddGlucose([reading |-> v, ts |-> SnapshotStamp(Len(ctx.glucose), f)])

SnapshotAddMeal ==
    \E f \in SnapshotForms :
        /\ ctx.meals = <<>>
        /\ AddMeal([meal |-> "Rice", ts |-> SnapshotStamp(0, f)])

SnapshotAddMedication ==
    \E f \in SnapshotForms :
        /\ Len(ctx.meds) < MaxSnapshotMedications
        /\ AddMedication([medication_name |-> "Metformin",
                          ts |-> SnapshotStamp(Len(ctx.meds), f)])

SnapshotAddActivity ==
    \E f \in SnapshotForms :
        /\ ctx.acts = <<>>
        /\ AddActivity([activity_type |-> "Walking", ts |-> SnapshotStamp(0, f)])

SnapshotAddWeight ==
    \E w \in SnapshotWeightValues :
        /\ Len(ctx.weights) < MaxSnapshotWeights
        /\ AddWeight([weight |-> w, unit |-> "kg", ts |-> SnapshotStamp(Len(ctx.weights), "Z")])

SnapshotRun == Len(runs) < 1 /\ Analyze

InitSnapshot ==
    /\ \E days \in SnapshotDays : ctx = EmptyContext(days, <<"Metformin">>, <<>>, FetchedAt)
    /\ wall = FetchedAt
    /\ fault = "none"
    /\ runs = <<>>
    /\ rows = NoRows

NextSnapshot ==
    \/ SnapshotAddGlucose
    \/ SnapshotAddMeal
    \/ SnapshotAddMedication
    \/ SnapshotAddActivity
    \/ SnapshotAddWeight
    \/ SnapshotRun

SpecSnapshot == InitSnapshot /\ [][NextSnapshot]_vars

----------------------------------------------------------------------------
(* Medication logs against the medications of the profile *)

MaxMedicationLogs == 5

MedicationDays == {1, 7}
MedicationProfiles == {<<"Metformin">>, <<"Metformin", "Insulin">>}
MedicationLogNames == {"Metformin", "metformin", "Insulin"}

\* logs arrive one hour apart, the newest in front
MedicationAddLog ==
    \E m \in MedicationLogNames :
        /\ Len(ctx.meds) < MaxMedicationLogs
        /\ AddMedication([medication_name |-> m,
                          ts |-> Timestamp(FetchedAt - 600 + 60 * Len(ctx.meds), "Z")])

MedicationRun == Len(runs) < 1 /\ Analyze

InitMedication ==
    /\ \E days \in MedicationDays, medications \in MedicationProfiles :
           ctx = EmptyContext(days, medications, <<>>, FetchedAt)
    /\ wall = FetchedAt
    /\ fault = "none"
    /\ runs = <<>>
    /\ rows = NoRows

NextMedication == MedicationAddLog \/ MedicationRun

SpecMedication == InitMedication /\ [][NextMedication]_vars

----------------------------------------------------------------------------
(* Many meal labels ranked against one day of readings *)

MaxRankingMeals == 6

\* the readings of the day, newest first: [minute, mg/dL]
RankingReadings ==
    <<[at |-> 1000, reading |-> 200], [at |-> 800, reading |-> 100],
      [at |-> 600, reading |-> 160], [at |-> 400, reading |-> 110],
      [at |-> 200, reading |-> 130], [at |-> 0, reading |-> 100]>>

RankingMealTimes == {100, 300, 500, 700, 900}
RankingLabels == <<"Rice", "Noodles", "Bread", "Salad", "Soup", "Curry", "Fruit">>

\* the next meal eaten has the next label
RankingAddMeal ==
    \E t \in RankingMealTimes :
        /\ Len(ctx.meals) < Min(MaxRankingMeals, Len(RankingLabels))
        /\ AddMeal([meal |-> RankingLabels[Len(ctx.meals) + 1], ts |-> Timestamp(t, "Z")])

RankingRun == Len(runs) < 1 /\ Analyze

InitRanking ==
    /\ ctx = [EmptyContext(7, <<>>, <<>>, FetchedAt) EXCEPT
                 !.glucose = [i \in 1..Len(RankingReadings) |->
                                 [reading |-> RankingReadings[i].reading,
                                  ts |-> Timestamp(RankingReadings[i].at, "Z")]]]
    /\ wall = FetchedAt
    /\ fault = "none"
    /\ runs = <<>>
    /\ rows = NoRows

NextRanking == RankingAddMeal \/ RankingRun

SpecRanking == InitRanking /\ [][NextRanking]_vars

----------------------------------------------------------------------------
(* One activity and the readings around it *)

MaxActivityReadings == 3

ActivityStart == 300
ActivityReadingTimes ==
    {ActivityStart - 30, ActivityStart - 10, ActivityStart + 60, ActivityStart + 90}
ActivityReadingValues == {100, 160}

ActivityAddGlucose ==
    \E t \in ActivityReadingTimes, v \in ActivityReadingValues :
        /\ Len(ctx.glucose) < MaxActivityReadings
        /\ AddGlucose([reading |-> v, ts |-> Timestamp(t, "Z")])

ActivityAddLog ==
    /\ ctx.acts = <<>>
    /\ AddActivity([activity_type |-> "Walking", ts |-> Timestamp(ActivityStart, "Z")])

ActivityRun == Len(runs) < 1 /\ Analyze

InitActivity ==
    /\ ctx = EmptyContext(7, <<>>, <<>>, FetchedAt)
    /\ wall = FetchedAt
    /\ fault = "none"
    /\ runs = <<>>
    /\ rows = NoRows

NextActivity == ActivityAddGlucose \/ ActivityAddLog \/ ActivityRun

SpecActivity == InitActivity /\ [][NextActivity]_vars
----------------------------------------------------------------------------
(* Two activities of one type, each with at most one reading before and one *)
(* reading after it *)

MaxPairingReadings == 3

PairingStarts == {300, 700}
PairingReadingTimes == {280, 400, 680, 800}
PairingReadingValues == {100, 160}

PairingAddGlucose ==
    \E t \in PairingReadingTimes, v \in PairingReadingValues :
        /\ Len(ctx.glucose) < MaxPairingReadings
        /\ StrictlyNewest(ctx.glucose, [reading |-> v, ts |-> Timestamp(t, "Z")])
        /\ AddGlucose([reading |-> v, ts |-> Timestamp(t, "Z")])

PairingAddLog ==
    \E t \in PairingStarts :
        /\ StrictlyNewest(ctx.acts, [activity_type |-> "Walking", ts |-> Timestamp(t, "Z")])
        /\ AddActivity([activity_type |-> "Walking", ts |-> Timestamp(t, "Z")])

PairingRun == Len(runs) < 1 /\ Analyze

InitPairing ==
    /\ ctx = EmptyContext(7, <<>>, <<>>, FetchedAt)
    /\ wall = FetchedAt
    /\ fault = "none"
    /\ runs = <<>>
    /\ rows = NoRows

NextPairing == PairingAddGlucose \/ PairingAddLog \/ PairingRun

SpecPairing == InitPairing /\ [][NextPairing]_vars
----------------------------------------------------------------------------
(* Weight logs whose created_at texts come in several forms *)

MaxWeightLogs == 3

WeightCivilTimes == {600, 900}
WeightForms == {"naive", "sgt", "Z"}
WeightValues == {70, 72}
WeightUnits == {"kg", "lbs"}

WeightAddLog ==
    \E t \in WeightCivilTimes, f \in WeightForms, w \in WeightValues, u \in WeightUnits :
        LET wl == [weight |-> w, unit |-> u, ts |-> Timestamp(t, f)]
        IN  /\ Len(ctx.weights) < MaxWeightLogs
            /\ StrictlyNewest(ctx.weights, wl)
            /\ AddWeight(wl)

WeightRun == Len(runs) < 1 /\ Analyze

InitWeight ==
    /\ ctx = [EmptyContext(7, <<>>, <<>>, FetchedAt) EXCEPT
                 !.glucose = <<[reading |-> 120, ts |-> Timestamp(900, "Z")],
                               [reading |-> 110, ts |-> Timestamp(600, "Z")]>>]
    /\ wall = FetchedAt
    /\ fault = "none"
    /\ runs = <<>>
    /\ rows = NoRows

NextWeight == WeightAddLog \/ WeightRun

SpecWeight == InitWeight /\ [][NextWeight]_vars
----------------------------------------------------------------------------
(* A profile with conditions and readings around the control threshold *)

MaxTargetReadings == 3

\* 01:00, 00:00, 10:00 and 15:00 Singapore time
TargetTimes == {60 * h : h \in {17, 16, 26, 31}}
TargetValues == {130, 140, 150}
TargetConditions ==
    {<<>>, <<"Type 2 Diabetes">>, <<"Type 1 Diabetes">>, <<"Hypertension", "Type 2 Diabetes">>}

TargetsAddGlucose ==
    \E t \in TargetTimes, v \in TargetValues :
        /\ Len(ctx.glucose) < MaxTargetReadings
        /\ \A i \in 1..Len(ctx.glucose) :
               Parses(ctx.glucose[i].ts) => Instant(ctx.glucose[i].ts) < t
        /\ AddGlucose([reading |-> v, ts |-> Timestamp(t, "Z")])

\* a row whose created_at does not parse
TargetsAddUnparsable ==
    /\ Len(ctx.glucose) < MaxTargetReadings
    /\ \A i \in 1..Len(ctx.glucose) : ~Parses(ctx.glucose[i].ts)
    /\ AddGlucose([reading |-> 130, ts |-> Timestamp(0, "bad")])

TargetsRun == Len(runs) < 1 /\ Analyze

InitTargets ==
    /\ \E conditions \in TargetConditions :
           ctx = EmptyContext(7, <<>>, conditions, FetchedAt)
    /\ wall = FetchedAt
    /\ fault = "none"
    /\ runs = <<>>
    /\ rows = NoRows

NextTargets == TargetsAddGlucose \/ TargetsAddUnparsable \/ TargetsRun

SpecTargets == InitTargets /\ [][NextTargets]_vars
----------------------------------------------------------------------------
(* Building the snapshot from the table rows *)

\* a numeric column of a row: a number, a text that is no number, NULL, or
\* no such key in the row
NumberField(n) == [kind |-> "number", value |-> n]
TextField == [kind |-> "text"]
NullField == [kind |-> "null"]
MissingField == [kind |-> "missing"]

\* float(row.get(key, 0)) and int(row.get(key, 0)) return: they raise
\* ValueError on a text that is no number and TypeError on None
Converts(field) == field.kind \in {"number", "missing"}

\* the value returned: the default 0 when the key is missing
Converted(field) == IF field.kind = "number" THEN field.value ELSE 0

\* since = now - timedelta(days=days, minutes=1)
Since(now, days) == now - (days * 1440 + 1)

\* the rows kept by the time filter: a created_at that does not parse is kept
FilteredRows(rs, since) ==
    SelectSeqIdx(rs, {i \in 1..Len(rs) :
        ~Parses(rs[i].created_at) \/ Instant(rs[i].created_at) >= since})

\* glucose_readings: left [] when the list comprehension raises
GlucoseReadingsOf(rs, since) ==
    LET filtered == FilteredRows(rs, since)
    IN  IF \A i \in 1..Len(filtered) : Converts(filtered[i].reading)
        THEN [i \in 1..Len(filtered) |->
                 [reading |-> Converted(filtered[i].reading), ts |-> filtered[i].created_at]]
        ELSE <<>>

\* activity_logs
ActivityLogsOf(rs, since) ==
    LET filtered == FilteredRows(rs, since)
    IN  IF \A i \in 1..Len(filtered) : Converts(filtered[i].duration_minutes)
        THEN [i \in 1..Len(filtered) |->
                 [activity_type |-> filtered[i].activity_type,
                  duration_minutes |-> Converted(filtered[i].duration_minutes),
                  ts |-> filtered[i].created_at]]
        ELSE <<>>

\* weight_logs
WeightLogsOf(rs, since) ==
    LET filtered == FilteredRows(rs, since)
    IN  IF \A i \in 1..Len(filtered) : Converts(filtered[i].weight)
        THEN [i \in 1..Len(filtered) |->
                 [weight |-> Converted(filtered[i].weight), unit |-> filtered[i].unit,
                  ts |-> filtered[i].created_at]]
        ELSE <<>>

\* `if len(glucose_readings) >= 3 or ... or len(activity_logs) >= 2`
EnoughForAnalysis(c) ==
    \/ Len(c.glucose) >= 3
    \/ Len(c.meals) >= 2
    \/ Len(c.meds) >= 2
    \/ Len(c.acts) >= 2

\* _extract_enhanced_patient_context(user_id, days=7)
ExtractContext ==
    /\ ~rows.read
    /\ LET since == Since(wall, 7)
           context == [EmptyContext(7, <<>>, <<>>, wall) EXCEPT
                          !.glucose = GlucoseReadingsOf(rows.glucose, since),
                          !.acts = ActivityLogsOf(rows.activity, since),
                          !.weights = WeightLogsOf(rows.weight, since)]
       IN  /\ ctx' = IF EnoughForAnalysis(context) THEN ContextAfterAnalysis(context)
                      ELSE context
           /\ runs' = IF EnoughForAnalysis(context)
                      THEN Append(runs, [at |-> wall, outcome |-> Outcome(context, wall, fault)])
                      ELSE runs
    /\ rows' = [rows EXCEPT !.read = TRUE]
    /\ UNCHANGED <<wall, fault>>

MaxFetchRows == 2

FetchGlucoseFields == {NumberField(100), MissingField, TextField}
FetchOtherFields == {NumberField(30), NullField}

\* created_at of the k-th row put into a table: rows five hours apart, the
\* first one older than the fetch window
RowStamp(k) == Timestamp(FetchedAt - 7 * 1440 - 300 + 300 * k, "Z")

FetchInsertGlucose ==
    \E f \in FetchGlucoseFields :
        /\ ~rows.read
        /\ Len(rows.glucose) < MaxFetchRows + 1
        /\ rows' = [rows EXCEPT !.glucose =
                       <<[reading |-> f, created_at |-> RowStamp(Len(@))]>> \o @]
        /\ UNCHANGED <<ctx, wall, fault, runs>>

FetchInsertActivity ==
    \E f \in FetchOtherFields :
        /\ ~rows.read
        /\ Len(rows.activity) < MaxFetchRows
        /\ rows' = [rows EXCEPT !.activity =
                       <<[activity_type |-> "Walking", duration_minutes |-> f,
                          created_at |-> RowStamp(Len(@) + 1)]>> \o @]
        /\ UNCHANGED <<ctx, wall, fault, runs>>

FetchInsertWeight ==
    \E f \in FetchOtherFields :
        /\ ~rows.read
        /\ Len(rows.weight) < MaxFetchRows
        /\ rows' = [rows EXCEPT !.weight =
                       <<[weight |-> f, unit |-> "kg",
                          created_at |-> RowStamp(Len(@) + 1)]>> \o @]
        /\ UNCHANGED <<ctx, wall, fault, runs>>

InitFetch ==
    /\ ctx = EmptyContext(7, <<>>, <<>>, FetchedAt)
    /\ wall = FetchedAt
    /\ fault = "none"
    /\ runs = <<>>
    /\ rows = NoRows

NextFetch == FetchInsertGlucose \/ FetchInsertActivity \/ FetchInsertWeight \/ ExtractContext

SpecFetch == InitFetch /\ [][NextFetch]_vars
----------------------------------------------------------------------------
(* Glucose readings whose created_at texts come in several forms *)

MaxSpikeReadings == 3

SpikeCivilTimes == {300, 360, 810, 840}
SpikeForms == {"Z", "sgt"}
SpikeValues == {100, 120, 130}

SpikeAddGlucose ==
    \E t \in SpikeCivilTimes, f \in SpikeForms, v \in SpikeValues :
        /\ Len(ctx.glucose) < MaxSpikeReadings
        /\ StrictlyNewest(ctx.glucose, [reading |-> v, ts |-> Timestamp(t, f)])
        /\ AddGlucose([reading |-> v, ts |-> Timestamp(t, f)])

SpikeRun == Len(runs) < 1 /\ Analyze

InitSpike ==
    /\ ctx = EmptyContext(7, <<>>, <<>>, FetchedAt)
    /\ wall = FetchedAt
    /\ fault = "none"
    /\ runs = <<>>
    /\ rows = NoRows

NextSpike == SpikeAddGlucose \/ SpikeRun

SpecSpike == InitSpike /\ [][NextSpike]_vars

\* the runs that returned a result
Returned == {i \in 1..Len(runs) : ~runs[i].outcome.raised}

ResultOf(i) == runs[i].outcome.result

\* the snapshot as it was when only its k oldest glucose readings were there
WithOldestReadings(c, k) ==
    [c EXCEPT !.glucose = SubSeq(@, Len(@) - k + 1, Len(@))]

(* C9: whenever the circadian analyzer produces a result from at least 6    *)
(* distinct local-hour buckets, peak_hours and low_hours share no hour;     *)
(* with fewer than 3 buckets both lists have as many entries as there are   *)
(* buckets.                                                                 *)
C9_PeakLowDisjoint ==
    \A i \in Returned :
        LET r == ResultOf(i).circadian_pattern
            n == Len(HourlyReadings(ctx.glucose))
        IN  r.present =>
               /\ n >= 6 => SeqToSet(r.peak_hours) \cap SeqToSet(r.low_hours) = {}
               /\ n < 3 => Len(r.peak_hours) = n /\ Len(r.low_hours) = n

C9_Witness ==
    /\ Returned # {}
    /\ Len(HourlyReadings(ctx.glucose)) >= 6
    /\ \A i \in Returned :
           /\ ResultOf(i).circadian_pattern.present
           /\ Len(ResultOf(i).circadian_pattern.peak_hours) = 3
           /\ Len(ResultOf(i).circadian_pattern.low_hours) = 3

\* max(0, 1 - stddev / 50) of a list of bucket means, in thousandths
ClampedStability(avgs) == Max(0, 1000 - (StdDev(avgs) * 10) \div 50)

\* the stability scores of two snapshots are ordered against their spreads
StabilityOrdered(a, b) ==
    LET A == BucketMeans(a.glucose)
        B == BucketMeans(b.glucose)
    IN  StdDev(A) <= StdDev(B) =>
            AnalyzeCircadian(a).pattern_stability >= AnalyzeCircadian(b).pattern_stability

(* C10 as stated: for bucket-mean collections of any size (a single bucket  *)
(* included) the stability score is max(0, 1 - stddev/50) and a collection  *)
(* with the smaller spread never has the smaller score.                     *)
C10_StabilityAnySize ==
    \A i \in Returned :
        LET r == ResultOf(i).circadian_pattern
        IN  r.present =>
               /\ r.pattern_stability = ClampedStability(BucketMeans(ctx.glucose))
               /\ \A k \in 1..Len(ctx.glucose) :
                      /\ StabilityOrdered(ctx, WithOldestReadings(ctx, k))
                      /\ StabilityOrdered(WithOldestReadings(ctx, k), ctx)

(* C10 amended: for collections of at least two bucket means the score is   *)
(* max(0, 1 - stddev/50) and is non-increasing in the spread; a single      *)
(* bucket always scores 0.5.                                                *)
C10_StabilityTwoOrMore ==
    \A i \in Returned :
        LET r == ResultOf(i).circadian_pattern
            A == BucketMeans(ctx.glucose)
        IN  r.present =>
               /\ Len(A) >= 2 => r.pattern_stability = ClampedStability(A)
               /\ Len(A) = 1 => r.pattern_stability = 500
               /\ \A k \in 1..Len(ctx.glucose) :
                      (Len(A) >= 2 /\ Len(BucketMeans(WithOldestReadings(ctx, k).glucose)) >= 2)
                      => /\ StabilityOrdered(ctx, WithOldestReadings(ctx, k))
                         /\ StabilityOrdered(WithOldestReadings(ctx, k), ctx)

\* a run over several buckets whose spread is beyond the clamp, and an
\* earlier state of the same history with a smaller, non-zero spread
C10_Witness ==
    /\ Returned # {}
    /\ Len(BucketMeans(ctx.glucose)) >= 3
    /\ \A i \in Returned : ResultOf(i).circadian_pattern.pattern_stability = 0
    /\ \E k \in 1..Len(ctx.glucose) :
           LET B == BucketMeans(WithOldestReadings(ctx, k).glucose)
           IN  Len(B) >= 2 /\ StdDev(B) > 0 /\ StdDev(B) < StdDev(BucketMeans(ctx.glucose))


\* the parsable glucose readings of the snapshot
ParsedReadings(c) == {j \in 1..Len(c.glucose) : Parses(c.glucose[j].ts)}

\* meal j has a glucose reading at or before its instant
HasReadingAtOrBefore(c, j) ==
    \E g \in ParsedReadings(c) : Instant(c.glucose[g].ts) <= Instant(c.meals[j].ts)

\* meal j has a glucose reading in the 3 hours after it
HasResponse(c, j) ==
    \E g \in ParsedReadings(c) :
        /\ Instant(c.meals[j].ts) < Instant(c.glucose[g].ts)
        /\ Instant(c.glucose[g].ts) <= Instant(c.meals[j].ts) + 180

\* the meals counted in the matrix, over all labels
TotalOccurrences(matrix) ==
    SumSeq([i \in 1..Len(matrix.correlations) |-> matrix.correlations[i].occurrences])

(* C1: every meal that contributes a spike has a baseline reading whose      *)
(* instant is at or before the meal's instant, and a meal with no glucose    *)
(* reading at or before its instant contributes no spike to any label.       *)
C1_BaselineNotAfterMeal ==
    \A i \in Returned :
        LET gbt == GlucoseByTime(ctx.glucose)
            parsed == {j \in 1..Len(ctx.meals) : Parses(ctx.meals[j].ts)}
        IN  /\ \A j \in parsed :
                   LET t == Instant(ctx.meals[j].ts)
                       b == MealBaseline(gbt, t)
                   IN  /\ MealSpike(gbt, ctx.meals[j]) # <<>> =>
                              /\ b.found
                              /\ b.at <= t
                              /\ \E g \in ParsedReadings(ctx) :
                                     Instant(ctx.glucose[g].ts) = b.at
                       /\ ~HasReadingAtOrBefore(ctx, j) => MealSpike(gbt, ctx.meals[j]) = <<>>
            /\ ctx.glucose # <<>> =>
                   TotalOccurrences(ResultOf(i).meal_glucose_correlations)
                       = Cardinality({j \in parsed :
                                         HasReadingAtOrBefore(ctx, j) /\ HasResponse(ctx, j)})

\* one meal is counted with a baseline taken at its own instant or before,
\* another has readings after it but none before and is left out
C1_Witness ==
    /\ Returned # {}
    /\ \E j, l \in 1..Len(ctx.meals) :
           /\ HasReadingAtOrBefore(ctx, j) /\ HasResponse(ctx, j)
           /\ ~HasReadingAtOrBefore(ctx, l) /\ HasResponse(ctx, l)
    /\ \A i \in Returned : TotalOccurrences(ResultOf(i).meal_glucose_correlations) = 1


(* C2: two calls of analyze_patterns on an identical snapshot give identical *)
(* output, whatever the wall clock reads at each call.                       *)
C2_SameOutputAnyClock ==
    \A i, j \in Returned : ResultOf(i) = ResultOf(j)

\* the snapshot analysed twice at two different wall-clock times
C2_Witness ==
    /\ Len(runs) = 2
    /\ Returned = {1, 2}
    /\ runs[1].at # runs[2].at
    /\ ctx.glucose # <<>> /\ ctx.meals # <<>>

(* C4: the hypoglycemia risk_score lies in [0, 1] whichever of the five      *)
(* rules (recent low, decreasing trend, long since meal, recent activity,    *)
(* insulin after the last meal) fire.                                        *)
C4_RiskScoreInUnitInterval ==
    \A i \in Returned :
        ResultOf(i).hypoglycemia_risk.present =>
            /\ ResultOf(i).hypoglycemia_risk.risk_score >= 0
            /\ ResultOf(i).hypoglycemia_risk.risk_score <= 1000

\* all five rules fire on one snapshot
C4_Witness ==
    \E i \in Returned :
        /\ ResultOf(i).hypoglycemia_risk.present
        /\ Len(ResultOf(i).hypoglycemia_risk.contributing_factors) = 5
        /\ RecentLows(ctx) = 3
        /\ ResultOf(i).hypoglycemia_risk.risk_score = 1000


\* the part of a result that analyzer a fills in
FieldOf(result, a) ==
    CASE a = "circadian" -> result.circadian_pattern
      [] a = "meal" -> result.meal_glucose_correlations
      [] a = "medication" -> result.medication_effectiveness
      [] a = "spikes" -> result.spike_patterns
      [] a = "activity" -> result.activity_correlations
      [] a = "weight" -> result.weight_correlations
      [] a = "hypoglycemia" -> result.hypoglycemia_risk
      [] a = "lifestyle" -> result.lifestyle_consistency
      [] OTHER -> result.personalized_targets

(* C3: when one analyzer fails internally, no exception leaves the           *)
(* orchestrator and the results of the other analyzers are still returned.   *)
C3_FailureIsolated ==
    \A i \in 1..Len(runs) :
        fault \in Analyzers =>
            /\ ~runs[i].outcome.raised
            /\ PatternAnalysis(runs[i].outcome).present
            /\ \A a \in Analyzers \ {fault} :
                   FieldOf(ResultOf(i), a) = FieldOf(AnalyzePatterns(ctx, runs[i].at), a)


InUnitInterval(score) == score >= 0 /\ score <= 1000

(* C5: the lifestyle overall score and the meal, medication and activity     *)
(* consistency scores each lie in [0, 1], for any number of distinct         *)
(* activity dates and any days_of_history.                                   *)
C5_LifestyleScoresInUnitInterval ==
    \A i \in Returned :
        ResultOf(i).lifestyle_consistency.present =>
            /\ InUnitInterval(ResultOf(i).lifestyle_consistency.overall_score)
            /\ InUnitInterval(ResultOf(i).lifestyle_consistency.meal_timing_consistency)
            /\ InUnitInterval(ResultOf(i).lifestyle_consistency.medication_timing_consistency)
            /\ InUnitInterval(ResultOf(i).lifestyle_consistency.activity_consistency)


C7_EmptyListsNeverRaise ==
    \A i \in 1..Len(runs) :
        ctx.days_of_history > 0 =>
            /\ ~runs[i].outcome.raised
            /\ (Len(ctx.weights) < 2 \/ Len(ctx.glucose) < 2) =>
                   ~ResultOf(i).weight_correlations.present
            /\ ctx.glucose = <<>> =>
                   /\ ~ResultOf(i).circadian_pattern.present
                   /\ ~ResultOf(i).hypoglycemia_risk.present
                   /\ ~ResultOf(i).personalized_targets.present

\* a run on a snapshot with meals, medication and weights but no reading
C7_Witness ==
    \E i \in Returned :
        /\ ctx.days_of_history > 0
        /\ ctx.glucose = <<>> /\ ctx.acts = <<>>
        /\ ctx.meals # <<>> /\ ctx.meds # <<>> /\ Len(ctx.weights) = 2
        /\ ~ResultOf(i).weight_correlations.present
        /\ ResultOf(i).lifestyle_consistency.present

\* the snapshot without the rows whose timestamp does not parse
OnlyParsed(list) == SelectSeqIdx(list, {i \in 1..Len(list) : Parses(list[i].ts)})

WithoutUnparsable(c) ==
    [c EXCEPT !.glucose = OnlyParsed(@), !.meals = OnlyParsed(@), !.meds = OnlyParsed(@),
              !.acts = OnlyParsed(@), !.weights = OnlyParsed(@)]

(* C8: an event whose timestamp is absent or unparsable does not influence   *)
(* any analyzer: the aggregate equals that of the snapshot with the event    *)
(* removed.                                                                  *)
C8_UnparsableEventsIgnored ==
    \A i \in Returned :
        ResultOf(i) = AnalyzePatterns(WithoutUnparsable(ctx), runs[i].at)


\* the mean of the bucket of local hour h, in hundredths
BucketMeanOf(c, h) ==
    LET ha == HourlyAvg(c.glucose)
    IN  ha[CHOOSE i \in 1..Len(ha) : ha[i].v = h].k

(* C11: whenever the circadian analyzer produces a result, peak_hours        *)
(* contains the local hour whose bucket mean is highest, low_hours contains  *)
(* the hour whose bucket mean is lowest, and peak_hours is ordered by        *)
(* descending bucket mean.                                                   *)
C11_PeakAndLowHoldExtremes ==
    \A i \in Returned :
        LET r == ResultOf(i).circadian_pattern
            means == SeqToSet(BucketMeans(ctx.glucose))
        IN  r.present =>
               /\ \E h \in SeqToSet(r.peak_hours) :
                      \A m \in means : BucketMeanOf(ctx, h) >= m
               /\ \E h \in SeqToSet(r.low_hours) :
                      \A m \in means : BucketMeanOf(ctx, h) <= m
               /\ \A j \in 1..(Len(r.peak_hours) - 1) :
                      BucketMeanOf(ctx, r.peak_hours[j]) >= BucketMeanOf(ctx, r.peak_hours[j + 1])

\* four or more buckets whose means are all different, the highest not the
\* first bucket met
C11_Witness ==
    /\ Returned # {}
    /\ Len(BucketMeans(ctx.glucose)) >= 4
    /\ Cardinality(SeqToSet(BucketMeans(ctx.glucose))) = Len(BucketMeans(ctx.glucose))
    /\ \E j \in 2..Len(BucketMeans(ctx.glucose)) :
           BucketMeans(ctx.glucose)[j] > BucketMeans(ctx.glucose)[1]
    /\ \A i \in Returned : ResultOf(i).circadian_pattern.present


\* the meals that have a baseline and a non-empty response set
Contributing(c) ==
    {j \in 1..Len(c.meals) :
        Parses(c.meals[j].ts) /\ HasReadingAtOrBefore(c, j) /\ HasResponse(c, j)}

\* max(glucose readings with instant in (meal, meal + 3h]) minus the value
\* of the latest glucose reading at or before meal j
ClaimedSpike(c, j) ==
    LET t == Instant(c.meals[j].ts)
        post == {c.glucose[g].reading : g \in {x \in ParsedReadings(c) :
                     t < Instant(c.glucose[x].ts) /\ Instant(c.glucose[x].ts) <= t + 180}}
        highest == CHOOSE v \in post : \A w \in post : w <= v
    IN  highest - MealBaseline(GlucoseByTime(c.glucose), t).value

\* the claimed spikes of the meals labelled exactly `label`
ClaimedSpikes(c, label) ==
    LET own == SelectSeqIdx([j \in 1..Len(c.meals) |-> j],
                            {j \in Contributing(c) : c.meals[j].meal = label})
    IN  [x \in 1..Len(own) |-> ClaimedSpike(c, own[x])]

(* C12: for each meal label (compared case-sensitively) avg_glucose_spike is *)
(* the mean, over the label's meals with a baseline and a response, of the   *)
(* highest reading in (meal, meal + 3h] minus the latest reading at or       *)
(* before the meal; occurrences counts those meals; is_high_spike holds      *)
(* exactly when the average is above 40.                                     *)
C12_MealSpikeAverages ==
    \A i \in Returned :
        LET cs == ResultOf(i).meal_glucose_correlations.correlations
        IN  /\ {cs[x].meal_name : x \in 1..Len(cs)}
                   = {ctx.meals[j].meal : j \in Contributing(ctx)}
            /\ Len(cs) = Cardinality({ctx.meals[j].meal : j \in Contributing(ctx)})
            /\ \A x \in 1..Len(cs) :
                   LET spikes == ClaimedSpikes(ctx, cs[x].meal_name)
                   IN  /\ cs[x].occurrences = Len(spikes)
                       /\ cs[x].k = CentiMean(spikes)
                       /\ cs[x].is_high_spike <=> (cs[x].k > 4000)


\* the number of logs of the snapshot for medication `name`
LogsFor(c, name) ==
    Cardinality({j \in 1..Len(c.meds) : Lower(c.meds[j].medication_name) = Lower(name)})

(* C13: for each medication the timing analyzer reports (days_of_history     *)
(* positive), adherence_rate is its number of logs / days_of_history * 100   *)
(* and effectiveness_score is min(1.0, adherence_rate / 100), so the score   *)
(* is in [0, 1] even with more logs than days.                               *)
C13_AdherenceAndEffectiveness ==
    \A i \in Returned :
        LET me == ResultOf(i).medication_effectiveness
        IN  \A x \in 1..Len(me) :
                LET n == LogsFor(ctx, me[x].medication_name)
                IN  /\ n > 0
                    /\ me[x].adherence_rate = (n * 10000) \div ctx.days_of_history
                    /\ me[x].effectiveness_score
                           = IF n >= ctx.days_of_history THEN 1000
                             ELSE (n * 1000) \div ctx.days_of_history
                    /\ me[x].effectiveness_score >= 0
                    /\ me[x].effectiveness_score <= 1000

\* 5 logs over 7 days: about 71.4% and 0.714
C13_Witness ==
    \E i \in Returned :
        /\ ctx.days_of_history = 7
        /\ LogsFor(ctx, "Metformin") = 5
        /\ ResultOf(i).medication_effectiveness[1].adherence_rate = 7142
        /\ ResultOf(i).medication_effectiveness[1].effectiveness_score = 714


\* the fixed weight of the rule a factor label stands for, in thousandths
WeightOfFactor(label) ==
    CASE label = "Recent low glucose readings" -> 300
      [] label = "Decreasing glucose trend" -> 200
      [] label = "Long time since last meal" -> 200
      [] label = "Recent physical activity" -> 150
      [] label = "Insulin taken without recent meal" -> 150
      [] OTHER -> 0

(* C14: the hypoglycemia risk_score is min(1.0, sum of the fixed weights     *)
(* 0.3, 0.2, 0.2, 0.15, 0.15 of the rules that fired) and                    *)
(* contributing_factors holds exactly one label per fired rule and none for  *)
(* a rule that did not fire.                                                 *)
C14_ScoreIsCappedSumOfFiredRules ==
    \A i \in Returned :
        LET r == ResultOf(i).hypoglycemia_risk
            f == r.contributing_factors
        IN  r.present =>
               /\ r.risk_score = Min(1000, SumSeq([x \in 1..Len(f) |-> WeightOfFactor(f[x])]))
               /\ Cardinality(SeqToSet(f)) = Len(f)
               /\ \A x \in 1..Len(f) : WeightOfFactor(f[x]) > 0
               /\ ("Recent low glucose readings" \in SeqToSet(f)) <=> (RecentLows(ctx) > 0)
               /\ ("Decreasing glucose trend" \in SeqToSet(f)) <=> (r.glucose_trend = "decreasing")
               /\ ("Long time since last meal" \in SeqToSet(f))
                      <=> (r.last_meal_hours_ago.present /\ r.last_meal_hours_ago.minutes > 360)
               /\ ("Recent physical activity" \in SeqToSet(f)) <=> r.recent_activity
               /\ ("Insulin taken without recent meal" \in SeqToSet(f))
                      <=> r.medication_timing_risk

\* only the recent-low rule and the 6-hours-since-meal rule fire: 0.5
C14_Witness ==
    \E i \in Returned :
        /\ ResultOf(i).hypoglycemia_risk.present
        /\ ResultOf(i).hypoglycemia_risk.risk_score = 500
        /\ ResultOf(i).hypoglycemia_risk.contributing_factors
               = <<"Recent low glucose readings", "Long time since last meal">>
        /\ ctx.acts # <<>> /\ ctx.meds # <<>>


(* C15: the recent-low rule fires (0.3 and its label) if and only if one of  *)
(* the 5 most recent glucose readings is strictly below 70 mg/dL; readings   *)
(* of 70 to 79 mg/dL never fire it.                                          *)
C15_RecentLowBelow70 ==
    \A i \in Returned :
        LET r == ResultOf(i).hypoglycemia_risk
        IN  r.present =>
               (("Recent low glucose readings" \in SeqToSet(r.contributing_factors))
                   <=> (\E k \in 1..Min(5, Len(ctx.glucose)) : ctx.glucose[k].reading < 70))

\* a run on a snapshot whose lowest recent reading is 70 mg/dL
C15_Witness ==
    \E i \in Returned :
        /\ ResultOf(i).hypoglycemia_risk.present
        /\ \E k \in 1..Min(5, Len(ctx.glucose)) : ctx.glucose[k].reading = 70
        /\ \A k \in 1..Len(ctx.glucose) : ctx.glucose[k].reading >= 70

\* the trend of the claim: the 3 most recent readings against the readings
\* present in positions 4 to 6, a difference of exactly 10 included
ClaimedTrend(c) ==
    LET recent == SumSeq(Readings(Slice(c.glucose, 0, 3)))
        prior == Readings(Slice(c.glucose, 3, 6))
        n == Len(prior)
    IN  IF n * recent + 30 * n <= 3 * SumSeq(prior) THEN "decreasing"
        ELSE IF n * recent >= 3 * SumSeq(prior) + 30 * n THEN "increasing"
        ELSE "stable"

(* C16: the trend is 'decreasing' (and 0.2 is added) when the mean of the 3  *)
(* most recent readings is at least 10 mg/dL below the mean of the readings  *)
(* present in positions 4 to 6, exactly 10 included; 'increasing' when at    *)
(* least 10 above; 'stable' otherwise.                                       *)
C16_TrendAtLeastTen ==
    \A i \in Returned :
        LET r == ResultOf(i).hypoglycemia_risk
        IN  (r.present /\ Len(ctx.glucose) >= 4) =>
               /\ r.glucose_trend = ClaimedTrend(ctx)
               /\ ("Decreasing glucose trend" \in SeqToSet(r.contributing_factors))
                      <=> (ClaimedTrend(ctx) = "decreasing")

\* six readings, the recent mean exactly 10 below the prior mean
C16_Witness ==
    \E i \in Returned :
        /\ ResultOf(i).hypoglycemia_risk.present
        /\ Len(ctx.glucose) = 6
        /\ SumSeq(Readings(Slice(ctx.glucose, 0, 3))) + 30
               = SumSeq(Readings(Slice(ctx.glucose, 3, 6)))

\* the latest insulin log is later than the latest meal log
InsulinAfterLastMeal(c) ==
    /\ InsulinLogs(c) # <<>>
    /\ c.meals # <<>>
    /\ Parses(InsulinLogs(c)[1].ts) /\ Parses(c.meals[1].ts)
    /\ Instant(InsulinLogs(c)[1].ts) > Instant(c.meals[1].ts)

(* C17: medication_timing_risk is true (and 0.15 is added) exactly when the  *)
(* most recent log of a medication whose name contains 'insulin' is later    *)
(* than the most recent meal log, whether or not the profile's medication    *)
(* list is empty.                                                            *)
C17_InsulinRuleIgnoresProfile ==
    \A i \in Returned :
        LET r == ResultOf(i).hypoglycemia_risk
        IN  r.present =>
               /\ r.medication_timing_risk <=> InsulinAfterLastMeal(ctx)
               /\ ("Insulin taken without recent meal" \in SeqToSet(r.contributing_factors))
                      <=> InsulinAfterLastMeal(ctx)

\* insulin logged after the last meal by a patient whose profile lists no
\* medication
C17_Witness ==
    \E i \in Returned :
        /\ ResultOf(i).hypoglycemia_risk.present
        /\ ctx.patient_medications = <<>>
        /\ InsulinAfterLastMeal(ctx)


(* C18: areas_needing_improvement holds a label for a category if and only   *)
(* if the category has no event or its score is below its threshold (0.6     *)
(* for meal and medication timing, 0.5 for activity day-coverage).           *)
C18_LabelIffBelowThreshold ==
    \A i \in Returned :
        LET r == ResultOf(i).lifestyle_consistency
            areas == SeqToSet(r.areas_needing_improvement)
        IN  r.present =>
               /\ (areas \cap {"Regular meal logging", "Meal timing consistency"} # {})
                      <=> (ctx.meals = <<>> \/ r.meal_timing_consistency < 600)
               /\ (areas \cap {"Regular medication logging", "Medication timing consistency"} # {})
                      <=> (ctx.meds = <<>> \/ r.medication_timing_consistency < 600)
               /\ (areas \cap {"Activity logging", "Regular physical activity"} # {})
                      <=> (ctx.acts = <<>> \/ r.activity_consistency < 500)

\* a run on a snapshot with exactly one meal log
C18_Witness ==
    \E i \in Returned :
        /\ ResultOf(i).lifestyle_consistency.present
        /\ Len(ctx.meals) = 1
        /\ ResultOf(i).lifestyle_consistency.meal_timing_consistency = 500


\* `chosen` is made of min(5, |pool|) members of `pool`, none of which the
\* order `better` puts after a member of `pool` left out
IsUpToFiveOf(chosen, pool, better(_, _)) ==
    /\ chosen \subseteq pool
    /\ Cardinality(chosen) = Min(5, Cardinality(pool))
    /\ \A a \in chosen, b \in pool \ chosen : better(a, b)

(* C19: best_meals is exactly the up-to-5 labels of lowest average spike     *)
(* among the labels that are not high-spike, worst_meals the up-to-5 labels  *)
(* of highest average spike among the high-spike labels, the two lists are   *)
(* disjoint, and correlations is sorted by average spike ascending.          *)
C19_BestAndWorstMeals ==
    \A i \in Returned :
        LET m == ResultOf(i).meal_glucose_correlations
            cs == m.correlations
            avg(l) == cs[CHOOSE x \in 1..Len(cs) : cs[x].meal_name = l].k
            lower(a, b) == avg(a) <= avg(b)
            higher(a, b) == avg(a) >= avg(b)
            high == {cs[x].meal_name : x \in {y \in 1..Len(cs) : cs[y].is_high_spike}}
            mild == {cs[x].meal_name : x \in {y \in 1..Len(cs) : ~cs[y].is_high_spike}}
        IN  /\ IsUpToFiveOf(SeqToSet(m.best_meals), mild, lower)
            /\ IsUpToFiveOf(SeqToSet(m.worst_meals), high, higher)
            /\ Len(m.best_meals) = Cardinality(SeqToSet(m.best_meals))
            /\ Len(m.worst_meals) = Cardinality(SeqToSet(m.worst_meals))
            /\ SeqToSet(m.best_meals) \cap SeqToSet(m.worst_meals) = {}
            /\ \A x \in 1..(Len(cs) - 1) : cs[x].k <= cs[x + 1].k

\* six labels ranked, none of them high-spike, their averages not all equal:
\* best_meals stops at five
C19_Witness ==
    \E i \in Returned :
        LET m == ResultOf(i).meal_glucose_correlations
        IN  /\ Len(m.correlations) = 6
            /\ Len(m.best_meals) = 5
            /\ m.worst_meals = <<>>
            /\ m.correlations[1].k < m.correlations[6].k


\* the readings of the snapshot whose instant is in the set `window`
ReadingsIn(c, window) ==
    LET own == SelectSeqIdx(c.glucose, {g \in ParsedReadings(c) : Instant(c.glucose[g].ts) \in window})
    IN  [x \in 1..Len(own) |-> own[x].reading]

(* C20: for an activity type (here of one activity) glucose_change is the    *)
(* mean of all readings with instant in (start + 1h, start + 3h] minus the   *)
(* mean of all readings within the hour before the start; a reading exactly  *)
(* at start + 1h is not part of the response.                                *)
C20_ChangeOfWindowMeans ==
    \A i \in Returned :
        \A r \in ResultOf(i).activity_correlations :
            LET t == Instant(ctx.acts[1].ts)
                baseline == ReadingsIn(ctx, (t - 60)..(t - 1))
                response == ReadingsIn(ctx, (t + 61)..(t + 180))
            IN  /\ baseline # <<>>
                /\ response # <<>>
                /\ r.glucose_change = CentiMean(response) - CentiMean(baseline)

\* a reported correlation with two different readings in the hour before the
\* activity
C20_Witness ==
    \E i \in Returned :
        /\ ResultOf(i).activity_correlations # {}
        /\ \E a, b \in ParsedReadings(ctx) :
               /\ Instant(ctx.glucose[a].ts) = ActivityStart - 30
               /\ Instant(ctx.glucose[b].ts) = ActivityStart - 10
               /\ ctx.glucose[a].reading # ctx.glucose[b].reading


\* the activities of one type that have both a reading in the hour before
\* them and a reading one to three hours after them
PairedInstances(c, activity_type) ==
    LET gbt == GlucoseByTime(c.glucose)
    IN  SelectSeqIdx(c.acts, {a \in 1..Len(c.acts) :
            /\ c.acts[a].activity_type = activity_type
            /\ Parses(c.acts[a].ts)
            /\ BeforeGlucose(gbt, Instant(c.acts[a].ts)) # <<>>
            /\ AfterGlucose(gbt, Instant(c.acts[a].ts)) # <<>>})

(* C21: an activity type is reported exactly when one of its activities has *)
(* both a before-reading and an after-reading, and its two averages are     *)
(* taken over those activities only: an activity with a reading on one side *)
(* only adds nothing to either average.                                     *)
C21_OnlyPairedInstancesCount ==
    \A i \in Returned :
        LET gbt == GlucoseByTime(ctx.glucose)
            types == {ctx.acts[a].activity_type : a \in 1..Len(ctx.acts)}
            reported == {r.activity_type : r \in ResultOf(i).activity_correlations}
        IN  /\ reported = {ty \in types : PairedInstances(ctx, ty) # <<>>}
            /\ \A r \in ResultOf(i).activity_correlations :
                   LET paired == PairedInstances(ctx, r.activity_type)
                   IN  /\ r.avg_glucose_before = CentiMean(BeforeReadings(gbt, paired))
                       /\ r.avg_glucose_after = CentiMean(AfterReadings(gbt, paired))

\* a run over two activities of which one has both readings and the other
\* has a reading on one side only
C21_Witness ==
    \E i \in Returned :
        /\ Len(ctx.acts) = 2
        /\ Len(PairedInstances(ctx, "Walking")) = 1
        /\ Len(ctx.glucose) = 3


\* the weight log of the snapshot with the greatest instant when `latest`,
\* with the least instant otherwise (the instants of the logs differ)
WeightLogAtEnd(c, latest) ==
    CHOOSE a \in 1..Len(c.weights) :
        \A b \in 1..Len(c.weights) :
            IF latest THEN Instant(c.weights[b].ts) <= Instant(c.weights[a].ts)
            ELSE Instant(c.weights[a].ts) <= Instant(c.weights[b].ts)

(* C22: weight_change_kg is the weight in kilograms of the log with the     *)
(* latest instant minus that of the log with the earliest instant, whatever *)
(* the textual forms of the timestamps, and correlation_strength is -0.3    *)
(* when that change is negative and +0.2 otherwise.                         *)
C22_ChangeFromEarliestToLatestInstant ==
    \A i \in Returned :
        LET w == ResultOf(i).weight_correlations
            change == WeightGrams(ctx.weights[WeightLogAtEnd(ctx, TRUE)])
                        - WeightGrams(ctx.weights[WeightLogAtEnd(ctx, FALSE)])
        IN  w.present =>
                /\ w.weight_change_kg = change
                /\ w.correlation_strength = IF change < 0 THEN 0 - 300 ELSE 200

\* a weight correlation over logs whose timestamps have different forms and
\* whose weights differ
C22_Witness ==
    \E i \in Returned :
        /\ ResultOf(i).weight_correlations.present
        /\ \E a, b \in 1..Len(ctx.weights) :
               /\ ctx.weights[a].ts.form # ctx.weights[b].ts.form
               /\ WeightGrams(ctx.weights[a]) # WeightGrams(ctx.weights[b])


\* a condition that names a diabetes type: "diabetes" in c.lower()
MentionsDiabetes(condition) == condition \in {"Type 1 Diabetes", "Type 2 Diabetes"}

HasDiabetesCondition(c) ==
    \E x \in 1..Len(c.patient_conditions) : MentionsDiabetes(c.patient_conditions[x])

(* C23: the suggested range is (80,140) when the profile has a diabetes-type *)
(* condition and the average reading is below 140, (80,180) when it has one  *)
(* and the average is 140 or more, and (70,140) when it has none; the        *)
(* minimum is always below the maximum.                                      *)
C23_RangeByDiabetesAndAverage ==
    \A i \in Returned :
        LET t == ResultOf(i).personalized_targets
            range == <<t.suggested_glucose_range_min, t.suggested_glucose_range_max>>
            readings == Readings(ctx.glucose)
        IN  t.present =>
                /\ range[1] < range[2]
                /\ range = IF ~HasDiabetesCondition(ctx) THEN <<70, 140>>
                           ELSE IF SumSeq(readings) < 140 * Len(readings) THEN <<80, 140>>
                           ELSE <<80, 180>>

\* targets for a profile with a diabetes-type condition and an average of
\* exactly 140
C23_Witness ==
    \E i \in Returned :
        /\ ResultOf(i).personalized_targets.present
        /\ HasDiabetesCondition(ctx)
        /\ Len(ctx.glucose) = 2
        /\ SumSeq(Readings(ctx.glucose)) = 280
        /\ ctx.glucose[1].reading # ctx.glucose[2].reading


\* the hour of day two hours before hour h
TwoHoursBefore(h) == IF h >= 2 THEN h - 2 ELSE h + 22

\* the best_activity_times that go with the k first hours of peak_hours
ActivityTimesBefore(peaks, k) ==
    {HourText(TwoHoursBefore(peaks[x])) : x \in 1..Min(k, Len(peaks))}

\* without a circadian pattern both lists of times are the fixed defaults
DefaultTimesWithoutPattern(i) ==
    LET t == ResultOf(i).personalized_targets
    IN  (t.present /\ ~ResultOf(i).circadian_pattern.present) =>
            /\ t.best_meal_times = <<PaddedText(8), PaddedText(12), PaddedText(18)>>
            /\ t.best_activity_times = <<PaddedText(6), PaddedText(18)>>

(* C24 as claimed: with a circadian pattern best_activity_times holds, for   *)
(* every hour of peak_hours, the hour two hours earlier wrapped into 0-23,   *)
(* and nothing else; without one the lists are the fixed defaults.           *)
C24_ActivityTimeForEveryPeakHour ==
    \A i \in Returned :
        LET t == ResultOf(i).personalized_targets
            p == ResultOf(i).circadian_pattern
        IN  /\ DefaultTimesWithoutPattern(i)
            /\ (t.present /\ p.present) =>
                   SeqToSet(t.best_activity_times) = ActivityTimesBefore(p.peak_hours, 3)

(* C24 amended: with a circadian pattern best_activity_times holds, for each *)
(* of the first two hours of peak_hours (the two highest bucket means), the  *)
(* hour two hours earlier wrapped into 0-23 (peak hour 1 gives 23), in that  *)
(* order and nothing else; without one the lists are the fixed defaults; the *)
(* lists are never empty.                                                    *)
C24_ActivityTimeForFirstTwoPeakHours ==
    \A i \in Returned :
        LET t == ResultOf(i).personalized_targets
            p == ResultOf(i).circadian_pattern
        IN  /\ DefaultTimesWithoutPattern(i)
            /\ t.present => (t.best_meal_times # <<>> /\ t.best_activity_times # <<>>)
            /\ (t.present /\ p.present) =>
                   /\ Len(t.best_activity_times) = Min(2, Len(p.peak_hours))
                   /\ \A x \in 1..Len(t.best_activity_times) :
                          t.best_activity_times[x] = HourText(TwoHoursBefore(p.peak_hours[x]))

\* three peak hours of which the highest is 01:00 local: the activity time
\* wraps to 23:00
C24_Witness ==
    \E i \in Returned :
        LET t == ResultOf(i).personalized_targets
            p == ResultOf(i).circadian_pattern
        IN  /\ t.present /\ p.present
            /\ Len(p.peak_hours) = 3
            /\ p.peak_hours[1] = 1
            /\ HourText(23) \in SeqToSet(t.best_activity_times)


\* the rows of a table that fall in the fetch window of the last seven days
RowsInWindow(rs) == FilteredRows(rs, Since(wall, 7))

\* a numeric column as the snapshot is said to hold it: its number, and zero
\* when it is missing or malformed
NumberOrZero(field) == IF field.kind = "number" THEN field.value ELSE 0

(* C25: after the fetch every row of the window is in the snapshot, in the  *)
(* order of the rows, and its numeric field (glucose reading, weight,       *)
(* activity duration) is the number of the row, or zero when that number is *)
(* missing or malformed: a bad number removes no record of its stream.      *)
C25_BadNumberKeepsEveryRow ==
    rows.read =>
        LET g == RowsInWindow(rows.glucose)
            a == RowsInWindow(rows.activity)
            w == RowsInWindow(rows.weight)
        IN  /\ Len(ctx.glucose) = Len(g)
            /\ \A i \in 1..Len(g) : ctx.glucose[i].reading = NumberOrZero(g[i].reading)
            /\ Len(ctx.acts) = Len(a)
            /\ \A i \in 1..Len(a) :
                   ctx.acts[i].duration_minutes = NumberOrZero(a[i].duration_minutes)
            /\ Len(ctx.weights) = Len(w)
            /\ \A i \in 1..Len(w) : ctx.weights[i].weight = NumberOrZero(w[i].weight)

\* a fetch of two glucose rows of the window, of which one has no reading:
\* both are in the snapshot, the one without a reading as zero
C25_Witness ==
    /\ rows.read
    /\ Len(ctx.glucose) = 2
    /\ ctx.glucose[1].reading = 0
    /\ ctx.glucose[2].reading = 100
    /\ rows.glucose[1].reading = MissingField


PermutationsOf(s) ==
    {[x \in 1..Len(s) |-> s[f[x]]] :
        f \in {g \in [1..Len(s) -> 1..Len(s)] :
                  \A a, b \in 1..Len(s) : a # b => g[a] # g[b]}}

\* the snapshots that hold the events of snapshot c, each list in some order
Reordered(c) ==
    {[c EXCEPT !.glucose = g, !.meals = m, !.meds = d, !.acts = a, !.weights = w] :
        g \in PermutationsOf(c.glucose), m \in PermutationsOf(c.meals),
        d \in PermutationsOf(c.meds), a \in PermutationsOf(c.acts),
        w \in PermutationsOf(c.weights)}

\* newest first: the order in which the tables are read
KeptNewestFirst(list) ==
    \A x, y \in 1..Len(list) : x < y => Instant(list[x].ts) >= Instant(list[y].ts)

(* C27: the result of a run is the result for the same events with every    *)
(* list in any other order, readings that share an instant included: the    *)
(* output does not depend on the position of an event in its list.          *)
C27_SameResultForAnyOrder ==
    \A i \in Returned :
        \A c \in Reordered(ctx) : AnalyzePatterns(c, runs[i].at) = ResultOf(i)

\* a run on a snapshot with two readings of different values at one instant
\* and a meal before them
C27_Witness ==
    \E i \in Returned :
        /\ ctx.meals # <<>>
        /\ \E a, b \in 1..Len(ctx.glucose) :
               /\ Instant(ctx.glucose[a].ts) = Instant(ctx.glucose[b].ts)
               /\ ctx.glucose[a].reading # ctx.glucose[b].reading
               /\ Instant(ctx.meals[1].ts) < Instant(ctx.glucose[a].ts)


(* C28: in every circadian result peak_avg_glucose is the greatest of the   *)
(* per-hour bucket means and low_avg_glucose is the least of them, however  *)
(* many buckets there are.                                                  *)
C28_PeakAndLowAveragesAreExtremes ==
    \A i \in Returned :
        LET r == ResultOf(i).circadian_pattern
            means == SeqToSet(BucketMeans(ctx.glucose))
        IN  r.present =>
                /\ r.peak_avg_glucose \in means
                /\ r.low_avg_glucose \in means
                /\ \A m \in means : m <= r.peak_avg_glucose /\ r.low_avg_glucose <= m

\* a circadian result over three buckets with three different means
C28_Witness ==
    \E i \in Returned :
        /\ ResultOf(i).circadian_pattern.present
        /\ Len(BucketMeans(ctx.glucose)) = 3
        /\ Cardinality(SeqToSet(BucketMeans(ctx.glucose))) = 3


(* C29: with a circadian pattern, best_meal_times names a local hour whose  *)
(* bucket mean is the lowest of all the buckets, however many there are.    *)
C29_MealTimesHoldDeepestTrough ==
    \A i \in Returned :
        LET t == ResultOf(i).personalized_targets
            means == SeqToSet(BucketMeans(ctx.glucose))
        IN  (t.present /\ ResultOf(i).circadian_pattern.present) =>
                \E x \in 1..Len(t.best_meal_times) :
                    \A m \in means : BucketMeanOf(ctx, t.best_meal_times[x].hour) <= m

\* targets over a pattern of three buckets, the lowest mean in one bucket only
C29_Witness ==
    \E i \in Returned :
        /\ ResultOf(i).personalized_targets.present
        /\ Len(ResultOf(i).circadian_pattern.low_hours) = 3
        /\ Len(BucketMeans(ctx.glucose)) = 3
        /\ \E x \in 1..3 : \A y \in 1..3 :
               x # y => BucketMeans(ctx.glucose)[x] < BucketMeans(ctx.glucose)[y]


\* the pairs <<earlier, later>> of readings the spike analyzer counts as a
\* spike: neighbours in its sorted list that pass its tests
CountedSpikePairs(c) ==
    LET sorted == SortByText(c.glucose)
    IN  {<<sorted[x - 1], sorted[x]>> :
            x \in {y \in 2..Len(sorted) : SpikeBetween(sorted[y - 1], sorted[y]) # <<>>}}

\* two readings with no reading of the snapshot between their instants
AdjacentByInstant(c, prev, curr) ==
    /\ Instant(prev.ts) < Instant(curr.ts)
    /\ ~\E g \in ParsedReadings(c) :
           /\ Instant(prev.ts) < Instant(c.glucose[g].ts)
           /\ Instant(c.glucose[g].ts) < Instant(curr.ts)

\* a rise of more than 20 mg/dL over half an hour to four hours
IsSpikeRise(prev, curr) ==
    /\ curr.reading - prev.reading > 20
    /\ Instant(curr.ts) - Instant(prev.ts) >= 30
    /\ Instant(curr.ts) - Instant(prev.ts) <= 240

(* C30: every spike the analyzer counts is a rise of more than 20 mg/dL     *)
(* between two readings that are neighbours in the order of their instants  *)
(* and 0.5 to 4 hours apart, whatever the textual forms of the timestamps;  *)
(* there is no result with fewer than two readings or without such a rise;  *)
(* spike_frequency is the number of counted spikes over days_of_history.    *)
C30_SpikesAreChronologicalNeighbours ==
    \A i \in Returned :
        LET r == ResultOf(i).spike_patterns
            counted == CountedSpikePairs(ctx)
            rises == {p \in SeqToSet(ctx.glucose) \X SeqToSet(ctx.glucose) :
                         AdjacentByInstant(ctx, p[1], p[2]) /\ IsSpikeRise(p[1], p[2])}
        IN  /\ \A p \in counted : AdjacentByInstant(ctx, p[1], p[2]) /\ IsSpikeRise(p[1], p[2])
            /\ (Len(ctx.glucose) < 2 \/ rises = {}) => ~r.present
            /\ r.present =>
                   r.spike_frequency = (Cardinality(counted) * 1000) \div ctx.days_of_history

\* a spike result over three readings whose timestamps have different forms
C30_Witness ==
    \E i \in Returned :
        /\ ResultOf(i).spike_patterns.present
        /\ Len(ctx.glucose) = 3
        /\ \E a, b \in 1..3 : ctx.glucose[a].ts.form # ctx.glucose[b].ts.form

============================================================================
